---- MODULE Spec2Model ----
(***************************************************************************)
(* A model of the Sacred Community Project library bot:                    *)
(*   scraper.py  - sitemap discovery, reconcile, fetch-with-retry, store   *)
(*   queries.py  - the read side of the catalog (search, listings, stats)  *)
(*   bot.py      - admin commands under the global lock, browsing views    *)
(*                                                                         *)
(* Text is modelled character by character: a string is a tuple of         *)
(* one-character strings, so that substring tests, LIKE patterns, JSON     *)
(* encoding and text ordering are computed rather than assumed.            *)
(* An optional value (Python None / SQL NULL) is <<>>, a present value v   *)
(* is <<v>>.                                                               *)
(***************************************************************************)
EXTENDS Integers, Sequences, FiniteSets, TLC

VARIABLES
    db,          \* library_content: a set of rows
    nextId,      \* the next AUTOINCREMENT id of library_content
    clock,       \* CURRENT_TIMESTAMP, in seconds
    lastData,    \* history: per url, the data of the latest store_data that was committed
    writes,      \* history: the number of store_data calls made
    lastCall     \* history: what the latest store_data call found and did

VARIABLES
    site,               \* the remote site: its sitemaps and archive listing
    mode,               \* the scraper process: "full", "update", "check" (sys.argv[1])
    phase,              \* where the scraper process stands
    src,                \* index into sitemap_urls of the sitemap fetched next
    all_urls,           \* all_urls of get_all_urls_from_sitemap
    to_scrape,          \* article_urls (full) / articles_to_update (update, check)
    item,               \* i of the scrape loop, 1-based
    attempt,            \* attempt of scrape_page's retry loop, 0-based
    scraped,               \* what scrape_page returned for the current item, None or a dict
    stats,              \* self.stats
    successful_scrapes, \* successful_scrapes of the run
    archive_dates,  \* self.archive_dates_map
    archive_url,        \* archive_url of scrape_dates_from_archives: None or a page index
    page_count,         \* page_count of scrape_dates_from_archives
    run_log,            \* the rows appended to scraping_log and update_log
    outcomes,           \* history: the outcomes of the current item's fetch attempts
    errors_before,      \* history: stats.errors when the current item began
    attempted,          \* history: the loop indices that had a fetch attempt
    last_io             \* history: "request" after session.get, "sleep" after time.sleep

VARIABLES
    admin_operation_lock, \* admin_operation_lock.locked()
    handler,              \* per admin command: where its handler stands
    command,              \* per admin command: "update", "rebuild" or "stats" ("none": not sent)
    member,               \* per admin command: interaction.user
    report,               \* per admin command: the embed prepared for the response
    saw_locked,           \* history: per admin command, was the lock held when its handler began
    tested                \* history: per admin command, did its handler call locked()

VARIABLES
    pending,              \* per browsing session: the interaction that waits for the event loop
    view,                 \* per browsing session: its LibraryView and what the user sees of it
    tasks,                \* per browsing session: its handlers that are suspended at an await
    last_event,           \* history: per browsing session, the latest interaction delivered
    timeouts,             \* per browsing session: how often on_timeout was called
    timeout_raised,       \* history: per browsing session, an exception has left on_timeout
    run                   \* history: per browsing session, the page presses since page 0 was set

VARIABLES
    pview,                \* utils/views/library_view.py: the persistent LibraryView
    ptasks,               \* the callbacks of the persistent view that are suspended at an await
    plast                 \* history: the latest interaction delivered to the persistent view

storeVars == <<db, nextId, clock, lastData, writes, lastCall>>

adminVars == <<admin_operation_lock, handler, command, member, report, saw_locked, tested>>

sessVars == <<pending, view, tasks, last_event, timeouts, timeout_raised, run>>

persVars == <<pview, ptasks, plast>>

botVars == <<adminVars, sessVars, persVars>>

syncVars == <<site, mode, phase, src, all_urls, to_scrape, item, attempt, scraped, stats,
              successful_scrapes, archive_dates, archive_url, page_count, run_log,
              outcomes, errors_before, attempted, last_io>>

vars == <<storeVars, syncVars, botVars>>

-----------------------------------------------------------------------------
(* Bounds of the model *)

MaxWrites == 2
NumRequests == 2
NumSessions == 1
MaxInFlight == 2
MaxTimeouts == 2
MaxPresses == 3
LibrarySize == 12

-----------------------------------------------------------------------------
(* Text *)

None == <<>>
Some(v) == <<v>>
IsNone(o) == o = <<>>
Val(o) == o[1]

\* Python truthiness of an optional string: None and "" are false
Truthy(o) == o # <<>> /\ o[1] # <<>>

\* The printable ASCII characters in code order: Ascii[i] has code 31 + i
\* (code 96, the grave accent, is held by a placeholder no text contains)
Ascii ==
    << " ", "!", "\"", "#", "$", "%", "&", "'", "(", ")", "*", "+", ",", "-", ".", "/",
       "0", "1", "2", "3", "4", "5", "6", "7", "8", "9", ":", ";", "<", "=", ">", "?",
       "@", "A", "B", "C", "D", "E", "F", "G", "H", "I", "J", "K", "L", "M", "N", "O",
       "P", "Q", "R", "S", "T", "U", "V", "W", "X", "Y", "Z", "[", "\\", "]", "^", "_",
       "GRAVE", "a", "b", "c", "d", "e", "f", "g", "h", "i", "j", "k", "l", "m", "n", "o",
       "p", "q", "r", "s", "t", "u", "v", "w", "x", "y", "z", "{", "|", "}", "~" >>

Chars == {Ascii[i] : i \in 1..Len(Ascii)}

OrdTable == [c \in Chars |-> 31 + (CHOOSE i \in 1..Len(Ascii) : Ascii[i] = c)]

Ord(c) == OrdTable[c]

Chr(n) == Ascii[n - 31]

\* ASCII case folding, as SQLite's LIKE does it: A-Z (65-90) to a-z
LowerTable == [c \in Chars |-> IF OrdTable[c] >= 65 /\ OrdTable[c] <= 90
                                THEN Chr(OrdTable[c] + 32) ELSE c]

Lower(c) == LowerTable[c]

LowerStr(s) == [i \in 1..Len(s) |-> Lower(s[i])]

\* Python: sub in s
Contains(s, sub) ==
    \E i \in 0..(Len(s) - Len(sub)) : SubSeq(s, i + 1, i + Len(sub)) = sub

\* Python: s.endswith(suf)
EndsWith(s, suf) ==
    Len(s) >= Len(suf) /\ SubSeq(s, Len(s) - Len(suf) + 1, Len(s)) = suf

\* text order by character code (Python str order, SQLite BINARY collation)
RECURSIVE StrLess(_, _)
StrLess(a, b) ==
    IF b = <<>> THEN FALSE
    ELSE IF a = <<>> THEN TRUE
    ELSE IF Head(a) = Head(b) THEN StrLess(Tail(a), Tail(b))
    ELSE Ord(Head(a)) < Ord(Head(b))

StrLeq(a, b) == a = b \/ StrLess(a, b)

\* Python: sorted(S) for a set of strings
RECURSIVE SortedStrs(_)
SortedStrs(S) ==
    IF S = {} THEN <<>>
    ELSE LET m == CHOOSE x \in S : \A y \in S : StrLeq(x, y)
         IN  <<m>> \o SortedStrs(S \ {m})

\* Python: s.strip()
RECURSIVE LStrip(_)
LStrip(s) == IF s # <<>> /\ Head(s) = " " THEN LStrip(Tail(s)) ELSE s

RECURSIVE RStrip(_)
RStrip(s) ==
    IF s # <<>> /\ s[Len(s)] = " " THEN RStrip(SubSeq(s, 1, Len(s) - 1)) ELSE s

Strip(s) == RStrip(LStrip(s))

\* Python: sep.join(parts)
RECURSIVE Join(_, _)
Join(parts, sep) ==
    IF parts = <<>> THEN <<>>
    ELSE IF Len(parts) = 1 THEN parts[1]
    ELSE parts[1] \o sep \o Join(Tail(parts), sep)

\* Python: s.split(','), the pieces in order
RECURSIVE SplitComma(_, _)
SplitComma(s, cur) ==
    IF s = <<>> THEN <<cur>>
    ELSE IF Head(s) = "," THEN <<cur>> \o SplitComma(Tail(s), <<>>)
    ELSE SplitComma(Tail(s), Append(cur, Head(s)))

Range(f) == {f[i] : i \in DOMAIN f}

\* json.dumps of a list of strings: ["a", "b"], with " and \ escaped
RECURSIVE JsonEscape(_)
JsonEscape(s) ==
    IF s = <<>> THEN <<>>
    ELSE IF Head(s) \in {"\"", "\\"} THEN <<"\\", Head(s)>> \o JsonEscape(Tail(s))
    ELSE <<Head(s)>> \o JsonEscape(Tail(s))

JsonDumps(list) ==
    <<"[">> \o Join([i \in 1..Len(list) |-> <<"\"">> \o JsonEscape(list[i]) \o <<"\"">>],
                    <<",", " ">>) \o <<"]">>

\* json.loads of a text written by json.dumps of a list of strings.  A character
\* is escaped when an odd number of backslashes stands right before it; the
\* strings lie between the quotes that are not escaped, and a backslash that is
\* not escaped itself is dropped from the string it stands in.
JsonLoads(s) ==
    LET Slashes(i) == Cardinality({k \in 1..(i - 1) : \A j \in (i - k)..(i - 1) : s[j] = "\\"})
        Escaped(i) == IF i = 1 THEN FALSE
                      ELSE IF s[i - 1] # "\\" THEN FALSE
                      ELSE Slashes(i) % 2 = 1
        quotes == SelectSeq([i \in 1..Len(s) |-> i],
                            LAMBDA i : s[i] = "\"" /\ ~Escaped(i))
        Item(k) ==
            LET from == quotes[2 * k - 1] + 1
                to == quotes[2 * k] - 1
                kept == SelectSeq([j \in 1..(to - from + 1) |-> from + j - 1],
                                  LAMBDA j : ~(s[j] = "\\" /\ ~Escaped(j)))
            IN  [q \in 1..Len(kept) |-> s[kept[q]]]
    IN  [k \in 1..(Len(quotes) \div 2) |-> Item(k)]

\* SQLite: s LIKE pat.  % matches any run of characters, _ any one character,
\* every other character matches itself without regard to ASCII case.
RECURSIVE Like(_, _)
Like(pat, s) ==
    IF pat = <<>> THEN s = <<>>
    ELSE IF Head(pat) = "%"
         THEN Like(Tail(pat), s) \/ (s # <<>> /\ Like(pat, Tail(s)))
         ELSE /\ s # <<>>
              /\ (Head(pat) = "_" \/ Lower(Head(pat)) = Lower(Head(s)))
              /\ Like(Tail(pat), Tail(s))

-----------------------------------------------------------------------------
(* Sentinels and sample texts *)

NoTitleFound == <<"N","o"," ","t","i","t","l","e"," ","f","o","u","n","d">>
Uncategorized == <<"U","n","c","a","t","e","g","o","r","i","z","e","d">>
Unknown == <<"U","n","k","n","o","w","n">>
EmptyTagsJson == <<"[", "]">>

\* the library path of the site, and the article urls of the model
LibPath == <<"/","d","i","g","i","t","a","l","-","l","i","b","r","a","r","y">>
UrlA == LibPath \o <<"/", "a">>
UrlB == LibPath \o <<"/", "b">>
UrlC == LibPath \o <<"/", "c">>
ArticleUrls == {UrlA, UrlB, UrlC}

Lastmods == {None, Some(<<"1">>), Some(<<"2">>)}

Date24 == <<"2","0","2","4">>
Date25 == <<"2","0","2","5">>

-----------------------------------------------------------------------------
(* Metadata extraction (scraper.py) *)

\* What a fetched page holds, as BeautifulSoup finds it:
\*   title  the text of h1.entry-title, None when there is no such element
\*   cats   the texts of the a.blog-item-category links, None without the wrapper
\*   author the text of the author link, None without element or link
\*   date   the datetime of the published-on element, None without it
\*   tags   the texts of the a.blog-item-tag links, None without the wrapper
\*   desc   what extract_description returns for the page
\*   raises TRUE when reading the page structure raises inside extract_metadata
Page(title, cats, author, date, tags, desc, raises) ==
    [title |-> title, cats |-> cats, author |-> author, date |-> date,
     tags |-> tags, desc |-> desc, raises |-> raises]

PageGo    == Page(Some(<<" ","G","o">>), Some(<< <<"M">>, <<"N">> >>), Some(<<"A","l">>),
                  Some(Date25), Some(<< <<"g">>, <<"h">> >>), <<"g","o">>, FALSE)
PageHi    == Page(Some(<<"H","i">>), Some(<< <<"M">> >>), Some(<<"B","o">>),
                  Some(Date24), Some(<< <<"g">> >>), <<>>, FALSE)
PageBare  == Page(Some(<<"T">>), None, None, None, None, <<>>, FALSE)
PageNoTitle == Page(None, Some(<< <<"Q">> >>), Some(<<"C","y">>),
                  Some(Date25), Some(<< <<"q">> >>), <<"q">>, FALSE)
PageBlankTitle == Page(Some(<<" ">>), Some(<< <<"Q">> >>), Some(<<"C","y">>),
                  None, Some(<< <<"q">> >>), <<>>, FALSE)
PageRaises == Page(None, None, None, None, None, <<>>, TRUE)
\* an article whose own title is the text that marks a missing title
PageSentinelTitle == Page(Some(NoTitleFound), Some(<< <<"M">> >>), Some(<<"B","o">>),
                  Some(Date24), Some(<< <<"g">> >>), <<>>, FALSE)

Pages == {PageGo, PageHi, PageBare, PageNoTitle, PageBlankTitle, PageRaises,
          PageSentinelTitle}

UrlData(url, lastmod) == [url |-> url, lastmod |-> lastmod]

\* a mutant of ExtractMetadata: the date of the archive listing is not looked up
ExtractMetadataOwnDate(page, url_data, archive_dates_map) ==
    IF page.raises
    THEN [url |-> url_data.url, last_modified |-> url_data.lastmod,
          scrape_success |-> FALSE, complete |-> FALSE,
          title |-> <<>>, categories |-> <<>>, author |-> <<>>,
          published_date |-> <<>>, tags |-> <<>>, description |-> <<>>]
    ELSE
    LET title == IF IsNone(page.title) THEN NoTitleFound ELSE Strip(Val(page.title))
        cats  == IF IsNone(page.cats) THEN <<>>
                 ELSE [i \in 1..Len(Val(page.cats)) |-> Strip(Val(page.cats)[i])]
        categories == IF cats = <<>> THEN Uncategorized ELSE Join(cats, <<",", " ">>)
        author == IF IsNone(page.author) THEN Unknown ELSE Strip(Val(page.author))
        own_date == IF IsNone(page.date) THEN Unknown ELSE Val(page.date)
        tags == IF IsNone(page.tags) THEN JsonDumps(<<>>)
                ELSE JsonDumps([i \in 1..Len(Val(page.tags)) |-> Strip(Val(page.tags)[i])])
    IN  [url |-> url_data.url, last_modified |-> url_data.lastmod,
         scrape_success |-> ~(title = NoTitleFound \/ title = <<>>), complete |-> TRUE,
         title |-> title, categories |-> categories, author |-> author,
         published_date |-> own_date, tags |-> tags, description |-> page.desc]

\* extract_metadata: the data dict.  complete = FALSE is the dict of the except
\* branch, which holds url, last_modified and scrape_success only.
ExtractMetadata(page, url_data, archive_dates_map) ==
    IF page.raises
    THEN [url |-> url_data.url, last_modified |-> url_data.lastmod,
          scrape_success |-> FALSE, complete |-> FALSE,
          title |-> <<>>, categories |-> <<>>, author |-> <<>>,
          published_date |-> <<>>, tags |-> <<>>, description |-> <<>>]
    ELSE
    LET title == IF IsNone(page.title) THEN NoTitleFound ELSE Strip(Val(page.title))
        cats  == IF IsNone(page.cats) THEN <<>>
                 ELSE [i \in 1..Len(Val(page.cats)) |-> Strip(Val(page.cats)[i])]
        categories == IF cats = <<>> THEN Uncategorized ELSE Join(cats, <<",", " ">>)
        author == IF IsNone(page.author) THEN Unknown ELSE Strip(Val(page.author))
        own_date == IF IsNone(page.date) THEN Unknown ELSE Val(page.date)
        published_date == IF url_data.url \in DOMAIN archive_dates_map
                          THEN archive_dates_map[url_data.url] ELSE own_date
        tags == IF IsNone(page.tags) THEN JsonDumps(<<>>)
                ELSE JsonDumps([i \in 1..Len(Val(page.tags)) |-> Strip(Val(page.tags)[i])])
    IN  [url |-> url_data.url, last_modified |-> url_data.lastmod,
         scrape_success |-> ~(title = NoTitleFound \/ title = <<>>), complete |-> TRUE,
         title |-> title, categories |-> categories, author |-> author,
         published_date |-> published_date, tags |-> tags, description |-> page.desc]

NoArchiveDates == <<>>

-----------------------------------------------------------------------------
(* The catalog table and store_data (scraper.py) *)

\* the row that INSERT writes for data: id from AUTOINCREMENT, scraped_at from
\* DEFAULT CURRENT_TIMESTAMP, the nine listed columns from data
RowOf(data, id, now) ==
    [id |-> id, url |-> data.url, title |-> data.title, categories |-> data.categories,
     author |-> data.author, published_date |-> data.published_date, tags |-> data.tags,
     description |-> data.description, last_modified |-> data.last_modified,
     scraped_at |-> now, scrape_success |-> data.scrape_success]

\* a mutant of InsertOrReplace: a plain INSERT into a table without the UNIQUE url
PlainInsert(table, row) == table \cup {row}

\* INSERT OR REPLACE under url TEXT UNIQUE: the rows in conflict with the new
\* row's url are deleted, then the row is inserted
InsertOrReplace(table, row) == {r \in table : r.url # row.url} \cup {row}

\* the nine columns of a row, as the data that wrote them
DataOf(row) ==
    [url |-> row.url, last_modified |-> row.last_modified,
     scrape_success |-> row.scrape_success, complete |-> TRUE,
     title |-> row.title, categories |-> row.categories, author |-> row.author,
     published_date |-> row.published_date, tags |-> row.tags,
     description |-> row.description]

\* store_data(data).  dbError: execute or commit raises (e.g. database is locked).
\* Building the parameter tuple of a dict without all keys raises KeyError.  Both
\* are caught inside store_data and leave the table as it was.
\* dt: the seconds gone by since the previous reading of the clock.
StoreData(data, dbError, dt) ==
    LET committed == data.complete /\ ~dbError
        now == clock + dt
    IN  /\ clock' = now
        /\ writes' = writes + 1
        /\ lastCall' = [url |-> Some(data.url), committed |-> committed,
                        existed |-> \E r \in db : r.url = data.url,
                        changed |-> \E r \in db : r.url = data.url /\ DataOf(r) # data,
                        sizeBefore |-> Cardinality(db)]
        /\ IF committed
           THEN /\ db' = InsertOrReplace(db, RowOf(data, nextId, now))
                /\ nextId' = nextId + 1
                /\ lastData' = [lastData EXCEPT ![data.url] = Some(data)]
           ELSE UNCHANGED <<db, nextId, lastData>>

-----------------------------------------------------------------------------
(* The read side (queries.py) *)

Successful(table) == {r \in table : r.scrape_success}

\* a mutant of Visible: the WHERE clause without scrape_success = 1
VisibleAll(table) == table

\* WHERE scrape_success = 1
Visible(table) == {r \in table : r.scrape_success}

\* get_all_categories: the split and stripped categories of the visible rows whose
\* categories are not the sentinel and not empty, sorted
GetAllCategories(table) ==
    LET texts == {r.categories : r \in {x \in Visible(table) :
                                         x.categories # Uncategorized /\ x.categories # <<>>}}
        parts(t) == LET p == SplitComma(t, <<>>) IN {Strip(p[i]) : i \in 1..Len(p)}
    IN  SortedStrs(UNION {parts(t) : t \in texts})

\* get_all_authors: SELECT DISTINCT author ... ORDER BY author
GetAllAuthors(table) ==
    SortedStrs({r.author : r \in {x \in Visible(table) : x.author # Unknown}})

\* the rows of a table in rowid order, which is the order of a table scan
RECURSIVE ById(_)
ById(table) ==
    IF table = {} THEN <<>>
    ELSE LET m == CHOOSE x \in table : \A y \in table : x.id <= y.id
         IN  <<m>> \o ById(table \ {m})

\* the tags of the rows, one entry per occurrence, in scan order
RECURSIVE TagOccurrences(_)
TagOccurrences(rows) ==
    IF rows = <<>> THEN <<>> ELSE JsonLoads(Head(rows).tags) \o TagOccurrences(Tail(rows))

Count(seq, x) == Cardinality({i \in 1..Len(seq) : seq[i] = x})

FirstIndex(seq, x) == CHOOSE i \in 1..Len(seq) : seq[i] = x /\ \A j \in 1..(i - 1) : seq[j] # x

\* sorted(tag_counts.items(), key=count, reverse=True): by count descending, ties
\* in the insertion order of the dict, which is the order of first occurrence.
\* The place of a tag is the number of tags that come before it.
ByPopularity(tags, occ) ==
    LET count == [x \in tags |-> Count(occ, x)]
        first == [x \in tags |-> FirstIndex(occ, x)]
        before == [x \in tags |->
                      Cardinality({y \in tags :
                          \/ count[y] > count[x]
                          \/ count[y] = count[x] /\ first[y] < first[x]})]
    IN  [i \in 1..Cardinality(tags) |-> CHOOSE x \in tags : before[x] = i - 1]

TopTagCount == 24
SEARCH_RESULTS_LIMIT == 20
RESULTS_PER_PAGE == 5

\* get_all_tags_with_counts: the 24 most frequent tags of the visible rows, sorted
GetAllTagsWithCounts(table) ==
    LET rows == ById({r \in Visible(table) : r.tags # EmptyTagsJson /\ r.tags # <<>>})
        occ  == TagOccurrences(rows)
        pop  == ByPopularity(Range(occ), occ)
        top  == SubSeq(pop, 1, IF Len(pop) < TopTagCount THEN Len(pop) ELSE TopTagCount)
    IN  SortedStrs(Range(top))

\* the filters of a search: four optional strings and the limit
Query(category, author, tag, search_term, limit) ==
    [category |-> category, author |-> author, tag |-> tag,
     search_term |-> search_term, limit |-> limit]

Wrap(s) == <<"%">> \o s \o <<"%">>

\* the WHERE clause that search_content builds
Matches(r, q) ==
    /\ Truthy(q.category) => Like(Wrap(Val(q.category)), r.categories)
    /\ Truthy(q.author) => r.author = Val(q.author)
    /\ Truthy(q.tag) => Like(Wrap(<<"\"">> \o Val(q.tag) \o <<"\"">>), r.tags)
    /\ Truthy(q.search_term) =>
          LET p == Wrap(Val(q.search_term))
          IN  \/ Like(p, r.title) \/ Like(p, r.categories) \/ Like(p, r.author)
              \/ Like(p, r.tags) \/ Like(p, r.description)

\* ORDER BY published_date DESC, scraped_at DESC: a before b, or tied with it
OrderedBefore(a, b) ==
    \/ StrLess(b.published_date, a.published_date)
    \/ a.published_date = b.published_date /\ a.scraped_at >= b.scraped_at

StrictlyBefore(a, b) == OrderedBefore(a, b) /\ ~OrderedBefore(b, a)

\* the dict search_content builds of a row
ResultOf(r) ==
    [url |-> r.url, title |-> r.title, categories |-> r.categories, author |-> r.author,
     published_date |-> r.published_date,
     tags |-> IF r.tags # <<>> THEN JsonLoads(r.tags) ELSE <<>>,
     description |-> r.description]

Min(a, b) == IF a < b THEN a ELSE b

\* the row sequences the SELECT of search_content can return: the matching visible
\* rows in the order of ORDER BY, cut at LIMIT; rows that tie in both sort keys may
\* come in either order
RECURSIVE OrderedPrefixes(_, _)
OrderedPrefixes(rows, n) ==
    IF n = 0 \/ rows = {} THEN {<<>>}
    ELSE LET firsts == {x \in rows : \A y \in rows : OrderedBefore(x, y)}
         IN  UNION {{<<f>> \o rest : rest \in OrderedPrefixes(rows \ {f}, n - 1)} : f \in firsts}

SearchRows(table, q) ==
    OrderedPrefixes({r \in Visible(table) : Matches(r, q)}, q.limit)

\* search_content: the lists it can return
SearchContent(table, q) ==
    {[i \in 1..Len(rows) |-> ResultOf(rows[i])] : rows \in SearchRows(table, q)}

\* get_content_stats, without last_update
GetContentStats(table) ==
    [total_articles |-> Cardinality(Visible(table)),
     total_categories |-> Len(GetAllCategories(table)),
     total_authors |-> Len(GetAllAuthors(table)),
     total_tags |-> Len(GetAllTagsWithCounts(table))]

\* a mutant of ValidateDatabase: the COUNT without the WHERE clause
ValidateDatabaseAnyRow(table) == Cardinality(table) > 0

\* validate_database, for a store that can be queried
ValidateDatabase(table) == Cardinality(Visible(table)) > 0

\* validate_database.  sqlError: connecting or the SELECT raises sqlite3.Error (no
\* database file with the table, database locked), which the except turns into False
validate_database(table, sqlError) == IF sqlError THEN FALSE ELSE ValidateDatabase(table)

-----------------------------------------------------------------------------
(* The bot process (bot.py): its state *)

Requests == 1..NumRequests
Sessions == 1..NumSessions

ADMIN_ROLE_NAMES == {"Admin", "Moderator", "Library Manager"}

\* the users that send admin commands
Members ==
    {[administrator |-> FALSE, roles |-> {"Moderator"}],
     [administrator |-> FALSE, roles |-> {"Member"}]}

NoMember == [administrator |-> FALSE, roles |-> {}]

\* a mutant of has_admin_role: any role at all is taken for an admin role
has_any_role(m) ==
    IF m.administrator THEN TRUE
    ELSE m.roles # {}

\* has_admin_role
has_admin_role(m) ==
    IF m.administrator THEN TRUE
    ELSE \E role \in m.roles : role \in ADMIN_ROLE_NAMES

Event(type, value) == [type |-> type, value |-> value]

NoFilters == [category |-> None, author |-> None, tag |-> None, search_term |-> None]

\* no LibraryView: the session has not run /library.
\*   open        the view is shown and dispatches the interactions of its components
\*   message     the content of the message the view is attached to
\*   notice      the ephemeral notice the latest interaction was answered with
\*   has_message view._message is set
\*   surface     the message itself: "none", "shown", "deleted" or "expired"
NoView ==
    [open |-> FALSE, current_filters |-> NoFilters, current_results |-> <<>>,
     current_page |-> 0, category_options |-> <<>>, author_options |-> <<>>,
     tag_options |-> <<>>, message |-> "none", notice |-> "none",
     has_message |-> FALSE, surface |-> "none"]

\* no page presses counted
NoRun == [counting |-> FALSE, nexts |-> 0, prevs |-> 0, valid |-> FALSE, first |-> <<>>]

\* LibraryView.__init__ of utils/views/library_view.py
\*   ready          initialize_metadata has added the dropdowns and buttons
\*   prev_disabled  disabled of the button prev_button of the view
\*   next_disabled  disabled of the button next_button of the view
\*   searched       the arguments of the latest rss_parser.search_content call
\*   reply          what the latest interaction was answered with: "edit" (the
\*                  message was edited), "notice" (a message was sent), "none"
\*   shown          the disabled flags of prev_button and next_button as the
\*                  message shows them to the users
NoPView ==
    [ready |-> FALSE, categories |-> <<>>, authors |-> <<>>,
     current_category |-> None, current_author |-> None, current_query |-> <<>>,
     current_results |-> <<>>, current_page |-> 0, results_per_page |-> 5,
     prev_disabled |-> TRUE, next_disabled |-> TRUE,
     searched |-> None, reply |-> "none", shown |-> <<TRUE, TRUE>>]

\* the page presses are not counted
NotCounting == run = [s \in Sessions |-> NoRun]

\* the page presses are counted
Counting == run = [s \in Sessions |-> [NoRun EXCEPT !.counting = TRUE]]

\* the bot has started: nothing sent to it yet
BotIdle ==
    /\ admin_operation_lock = FALSE
    /\ handler = [r \in Requests |-> "none"]
    /\ command = [r \in Requests |-> "none"]
    /\ member = [r \in Requests |-> NoMember]
    /\ report = [r \in Requests |-> None]
    /\ saw_locked = [r \in Requests |-> FALSE]
    /\ tested = [r \in Requests |-> FALSE]
    /\ pending = [s \in Sessions |-> None]
    /\ view = [s \in Sessions |-> NoView]
    /\ tasks = [s \in Sessions |-> <<>>]
    /\ last_event = [s \in Sessions |-> Event("none", <<>>)]
    /\ timeouts = [s \in Sessions |-> 0]
    /\ timeout_raised = [s \in Sessions |-> FALSE]
    /\ pview = NoPView
    /\ ptasks = <<>>
    /\ plast = Event("none", <<>>)

-----------------------------------------------------------------------------
(* The scraper process (scraper.py): one run of main() *)

NoCall == [url |-> None, committed |-> FALSE, existed |-> FALSE, changed |-> FALSE,
           sizeBefore |-> 0]

max_retries == 3
ArchivePageLimit == 50

UrlRoot == LibPath \o <<"/">>
UrlCat == LibPath \o <<"/","c","a","t","e","g","o","r","y","/","m">>

\* is_article_url
is_article_url(url) ==
    IF ~Contains(url, LibPath) THEN FALSE
    ELSE IF EndsWith(url, LibPath) \/ EndsWith(url, LibPath \o <<"/">>) THEN FALSE
    ELSE IF Contains(url, LibPath \o <<"/","c","a","t","e","g","o","r","y","/">>) THEN FALSE
    ELSE IF Contains(url, LibPath \o <<"/","t","a","g","/">>) THEN FALSE
    ELSE IF Contains(url, <<"?","a","u","t","h","o","r","=">>)
            \/ Contains(url, <<"&","a","u","t","h","o","r","=">>) THEN FALSE
    ELSE IF Contains(url, LibPath \o <<"?">>) THEN FALSE
    ELSE IF /\ Contains(url, LibPath \o <<"/">>)
            /\ ~ \E x \in {<<"c","a","t","e","g","o","r","y","/">>, <<"t","a","g","/">>, <<"?">>} :
                    Contains(url, x)
         THEN TRUE
    ELSE FALSE

\* filter_article_urls
filter_article_urls(urls) == SelectSeq(urls, LAMBDA e : is_article_url(e.url))

\* a mutant of NeedsUpdate: any difference counts, also a sitemap entry without lastmod
NeedsUpdateAnyDifference(stored_lastmod, sitemap_lastmod) ==
    sitemap_lastmod # stored_lastmod

\* check_for_updates: if sitemap_lastmod and sitemap_lastmod != stored_lastmod
NeedsUpdate(stored_lastmod, sitemap_lastmod) ==
    Truthy(sitemap_lastmod) /\ sitemap_lastmod # stored_lastmod

\* SELECT last_modified ... WHERE url = ?; fetchone()
FetchOne(table, url) ==
    IF \E r \in table : r.url = url
    THEN Some((CHOOSE r \in table : r.url = url).last_modified)
    ELSE None

\* check_for_updates, after the sitemaps were read: new_articles + updated_articles
check_for_updates(urls, table) ==
    LET article_urls == filter_article_urls(urls)
        new_articles == SelectSeq(article_urls, LAMBDA e : FetchOne(table, e.url) = None)
        updated_articles ==
            SelectSeq(article_urls, LAMBDA e : /\ FetchOne(table, e.url) # None
                                           /\ NeedsUpdate(Val(FetchOne(table, e.url)), e.lastmod))
    IN  IF article_urls = <<>> THEN <<>> ELSE new_articles \o updated_articles

\* The remote site.  sitemap: the entries of /sitemap.xml, a regular sitemap.
\* index_sub: the entries of the one sub-sitemap that /sitemap.index.xml points to.
\* archive: the pages of the /digital-library listing, each with the dates it shows
\* and the page its link to older posts points to, if it has one.
Site1 ==
    [sitemap |-> << UrlData(UrlRoot, Some(<<"1">>)), UrlData(UrlA, Some(<<"1">>)),
                    UrlData(UrlB, Some(<<"1">>)), UrlData(UrlC, Some(<<"2">>)),
                    UrlData(UrlCat, None) >>,
     index_sub |-> << UrlData(UrlA, Some(<<"1">>)) >>,
     archive |-> << [dates |-> (UrlA :> Date24), older |-> None] >>]

Site2 ==
    [sitemap |-> << UrlData(UrlA, Some(<<"1">>)), UrlData(UrlB, None) >>,
     index_sub |-> << >>,
     archive |-> << [dates |-> (UrlA :> Date24), older |-> None] >>]

\* urls of the library that a sitemap can list next to the articles: the listing
\* root without the slash, a tag index, an author query, and an article whose
\* address ends in "tag/"
UrlBare == LibPath
UrlTag == LibPath \o <<"/","t","a","g","/","g">>
UrlAuthor == LibPath \o <<"?","a","u","t","h","o","r","=","1">>
UrlSlug == LibPath \o <<"/","n","a","m","e","-","t","a","g","/">>

Site3 ==
    [sitemap |-> << UrlData(UrlBare, None), UrlData(UrlRoot, None), UrlData(UrlCat, None),
                    UrlData(UrlTag, None), UrlData(UrlAuthor, None),
                    UrlData(UrlA, Some(<<"1">>)), UrlData(UrlSlug, Some(<<"1">>)) >>,
     index_sub |-> << >>,
     archive |-> << [dates |-> (UrlA :> Date24), older |-> None] >>]

\* a site whose two articles are the ones of Store1, as last modified then, and
\* whose archive listing has an older page
Site4 ==
    [sitemap |-> << UrlData(UrlB, Some(<<"1">>)) >>,
     index_sub |-> << UrlData(UrlC, Some(<<"1">>)) >>,
     archive |-> << [dates |-> (UrlB :> Date24), older |-> Some(2)],
                    [dates |-> (UrlC :> Date24), older |-> None] >>]

\* a site whose archive listing never ends: the link to older posts of its second
\* page leads back to the first
Site5 ==
    [sitemap |-> << UrlData(UrlA, Some(<<"1">>)) >>,
     index_sub |-> << >>,
     archive |-> << [dates |-> (UrlA :> Date24), older |-> Some(2)],
                    [dates |-> (UrlB :> Date24), older |-> Some(1)] >>]

Sites == {Site1, Site2, Site3, Site4, Site5}

\* the catalog an earlier run left: records of B and C, both with lastmod 1
Store1 ==
    InsertOrReplace(
        InsertOrReplace({}, RowOf(ExtractMetadata(PageHi, UrlData(UrlB, Some(<<"1">>)),
                                                  NoArchiveDates), 1, 1)),
        RowOf(ExtractMetadata(PageGo, UrlData(UrlC, Some(<<"1">>)), NoArchiveDates), 2, 2))

InitialStores == {{}, Store1}

\* the pages a fetch can bring during a run
SyncPages == {PageGo, PageBare, PageNoTitle, PageRaises}

ZeroStats == [urls_found |-> 0, articles_found |-> 0, pages_scraped |-> 0, errors |-> 0,
              dates_extracted |-> 0]

\* no scraper process is running
SyncIdle ==
    /\ mode = "none"
    /\ phase = "idle"
    /\ src = 1
    /\ all_urls = <<>>
    /\ to_scrape = <<>>
    /\ item = 0
    /\ attempt = 0
    /\ scraped = None
    /\ stats = ZeroStats
    /\ successful_scrapes = 0
    /\ archive_dates = NoArchiveDates
    /\ archive_url = None
    /\ page_count = 0
    /\ run_log = <<>>
    /\ outcomes = <<>>
    /\ errors_before = 0
    /\ attempted = {}
    /\ last_io = "none"

\* the store holds the rows of table, written by earlier runs
CatalogIs(table) ==
    /\ db = table
    /\ nextId = Cardinality(table) + 1
    /\ clock = Cardinality(table)
    /\ lastData = [u \in ArticleUrls |->
                      IF \E r \in table : r.url = u
                      THEN Some(DataOf(CHOOSE r \in table : r.url = u)) ELSE None]
    /\ writes = Cardinality(table)
    /\ lastCall = NoCall

SyncInit ==
    /\ \E table \in InitialStores : CatalogIs(table)
    /\ site \in Sites
    /\ SyncIdle
    /\ BotIdle
    /\ NotCounting

\* main(): Scraper() and the mode of the command line
StartRun(m) ==
    /\ phase = "idle"
    /\ mode' = m
    /\ phase' = "sitemap"
    /\ UNCHANGED <<storeVars, site, src, all_urls, to_scrape, item, attempt, scraped, stats,
                   successful_scrapes, archive_dates, archive_url, page_count, run_log,
                   outcomes, errors_before, attempted, last_io>>
    /\ UNCHANGED botVars

\* get_all_urls_from_sitemap goes on to the next sitemap_url, or returns urls
NextSitemap(urls) ==
    IF src < 2
    THEN /\ src' = src + 1
         /\ phase' = "sitemap"
         /\ UNCHANGED stats
    ELSE /\ src' = src
         /\ stats' = [stats EXCEPT !.urls_found = Len(urls)]
         /\ phase' = "discovered"

\* a mutant of FetchSitemap: a request that raises ends the run
FetchSitemapRaises(ok) ==
    /\ phase = "sitemap"
    /\ last_io' = "request"
    /\ phase' = IF ok THEN "submap" ELSE "done"
    /\ UNCHANGED <<src, stats>>
    /\ UNCHANGED <<storeVars, site, mode, all_urls, to_scrape, item, attempt, scraped,
                   successful_scrapes, archive_dates, archive_url, page_count, run_log,
                   outcomes, errors_before, attempted>>
    /\ UNCHANGED botVars

\* get_all_urls_from_sitemap, the request for one sitemap_url and its parse.
\* ok = FALSE: the request or the parse raised; the except branch goes on to the
\* next sitemap_url.  ok: the entries are read by parse_individual_sitemap.
FetchSitemap(ok) ==
    /\ phase = "sitemap"
    /\ last_io' = "request"
    /\ IF ok
       THEN /\ phase' = "submap"
            /\ UNCHANGED <<src, stats>>
       ELSE NextSitemap(all_urls)
    /\ UNCHANGED <<storeVars, site, mode, all_urls, to_scrape, item, attempt, scraped,
                   successful_scrapes, archive_dates, archive_url, page_count, run_log,
                   outcomes, errors_before, attempted>>
    /\ UNCHANGED botVars

\* parse_individual_sitemap: its own request, for the sitemap that the index names
\* or, for a regular sitemap, for the sitemap_url once more.  ok = FALSE: the
\* request or the parse raised; the except branch returns no entries.
parse_individual_sitemap(ok) ==
    /\ phase = "submap"
    /\ last_io' = "request"
    /\ LET urls == all_urls \o (IF ~ok THEN <<>>
                                  ELSE IF src = 1 THEN site.sitemap ELSE site.index_sub)
       IN  /\ all_urls' = urls
           /\ NextSitemap(urls)
    /\ UNCHANGED <<storeVars, site, mode, to_scrape, item, attempt, scraped,
                   successful_scrapes, archive_dates, archive_url, page_count, run_log,
                   outcomes, errors_before, attempted>>
    /\ UNCHANGED botVars

\* run_full_scrape, steps 1 and 2: return without a summary when nothing was found
SelectFull ==
    /\ phase = "discovered"
    /\ mode = "full"
    /\ IF all_urls = <<>>
       THEN /\ phase' = "done"
            /\ UNCHANGED <<to_scrape, stats>>
       ELSE /\ to_scrape' = filter_article_urls(all_urls)
            /\ stats' = [stats EXCEPT !.articles_found = Len(filter_article_urls(all_urls))]
            /\ phase' = IF filter_article_urls(all_urls) = <<>> THEN "done" ELSE "archive"
    /\ archive_url' = IF phase' = "archive" THEN Some(1) ELSE None
    /\ UNCHANGED <<storeVars, site, mode, src, all_urls, item, attempt, scraped,
                   successful_scrapes, archive_dates, page_count, run_log,
                   outcomes, errors_before, attempted, last_io>>
    /\ UNCHANGED botVars

\* check_for_updates, called by run_incremental_update and by the check mode
Reconcile ==
    /\ phase = "discovered"
    /\ mode \in {"update", "check"}
    /\ to_scrape' = check_for_updates(all_urls, db)
    /\ stats' = [stats EXCEPT !.articles_found = Len(filter_article_urls(all_urls))]
    /\ phase' = "selected"
    /\ UNCHANGED <<storeVars, site, mode, src, all_urls, item, attempt, scraped,
                   successful_scrapes, archive_dates, archive_url, page_count, run_log,
                   outcomes, errors_before, attempted, last_io>>
    /\ UNCHANGED botVars

\* after check_for_updates: the check mode reports and ends; run_incremental_update
\* returns when nothing is selected, else goes on to the archive pass
AfterReconcile ==
    /\ phase = "selected"
    /\ phase' = IF mode = "check" \/ to_scrape = <<>> THEN "done" ELSE "archive"
    /\ archive_url' = IF phase' = "archive" THEN Some(1) ELSE None
    /\ UNCHANGED <<storeVars, site, mode, src, all_urls, to_scrape, item, attempt, scraped, stats,
                   successful_scrapes, archive_dates, page_count, run_log,
                   outcomes, errors_before, attempted, last_io>>
    /\ UNCHANGED botVars

\* f overridden by g, as dates[url] = ... does entry by entry
Override(f, g) == [u \in DOMAIN f \cup DOMAIN g |-> IF u \in DOMAIN g THEN g[u] ELSE f[u]]

\* the scrape loop begins: i = 1
EnterLoop ==
    /\ phase' = "fetch"
    /\ item' = 1
    /\ attempt' = 0
    /\ outcomes' = <<>>
    /\ errors_before' = stats.errors

\* a mutant of ArchiveGoesOn: the page count is not looked at
ArchiveGoesOnUnlimited(url, count) == url # None

\* while archive_url and page_count < 50
ArchiveGoesOn(url, count) == url # None /\ count < ArchivePageLimit

\* scrape_dates_from_archives, one archive page per step.  ok = FALSE: the request
\* or the parse raised, which breaks out of the loop with the dates read so far.
\* time.sleep(self.request_delay) runs only when the page links to an older one.
ArchivePage(ok) ==
    /\ phase = "archive"
    /\ IF ArchiveGoesOn(archive_url, page_count)
       THEN IF ok
            THEN LET pg == site.archive[Val(archive_url)]
                 IN  /\ archive_dates' = Override(archive_dates, pg.dates)
                     /\ stats' = [stats EXCEPT !.dates_extracted =
                                     @ + Cardinality(DOMAIN pg.dates)]
                     /\ IF pg.older # None
                        THEN /\ archive_url' = pg.older
                             /\ page_count' = page_count + 1
                             /\ last_io' = "sleep"
                        ELSE /\ archive_url' = None
                             /\ last_io' = "request"
                             /\ UNCHANGED page_count
                     /\ UNCHANGED <<phase, item, attempt, outcomes, errors_before>>
            ELSE /\ EnterLoop
                 /\ last_io' = "request"
                 /\ UNCHANGED <<archive_dates, stats, archive_url, page_count>>
       ELSE /\ EnterLoop
            /\ UNCHANGED <<archive_dates, stats, archive_url, page_count, last_io>>
    /\ UNCHANGED <<storeVars, site, mode, src, all_urls, to_scrape, scraped,
                   successful_scrapes, run_log, attempted>>
    /\ UNCHANGED botVars

\* a mutant of RetryAgain: one retry more
RetryAgainOnceMore(n) == n < max_retries

\* scrape_page, except branch: if attempt < self.max_retries - 1
RetryAgain(n) == n < max_retries - 1

\* a mutant of AfterExhausted: the failure ends the loop
AfterExhaustedBreak == "summary"

\* where the loop body goes on when scrape_page returned None: to the rate limit
AfterExhausted == "sleep"

\* scrape_page, one attempt per step.  ok: the request succeeded and the page was
\* parsed; extract_metadata catches what it raises itself.  A failed attempt that
\* is retried ends with time.sleep(2).
FetchAttempt(ok, page) ==
    /\ phase = "fetch"
    /\ outcomes' = Append(outcomes, IF ok THEN "ok" ELSE "fail")
    /\ attempted' = attempted \cup {item}
    /\ IF ok
       THEN /\ scraped' = Some(ExtractMetadata(page, to_scrape[item], archive_dates))
            /\ phase' = "store"
            /\ last_io' = "request"
            /\ UNCHANGED <<attempt, stats>>
       ELSE IF RetryAgain(attempt)
            THEN /\ last_io' = "sleep"
                 /\ IF attempt + 1 < max_retries
                    THEN /\ attempt' = attempt + 1
                         /\ UNCHANGED <<scraped, phase, stats>>
                    ELSE /\ scraped' = None
                         /\ phase' = AfterExhausted
                         /\ UNCHANGED <<attempt, stats>>
            ELSE /\ stats' = [stats EXCEPT !.errors = @ + 1]
                 /\ scraped' = None
                 /\ phase' = AfterExhausted
                 /\ last_io' = "request"
                 /\ UNCHANGED attempt
    /\ UNCHANGED <<storeVars, site, mode, src, all_urls, to_scrape, item,
                   successful_scrapes, archive_dates, archive_url, page_count, run_log,
                   errors_before>>
    /\ UNCHANGED botVars

\* the loop body after scrape_page returned data: store_data, then the counters
StoreItem(dbError) ==
    /\ phase = "store"
    /\ StoreData(Val(scraped), dbError, 1)
    /\ stats' = [stats EXCEPT !.pages_scraped = @ + 1]
    /\ successful_scrapes' =
          IF Val(scraped).scrape_success /\ Val(scraped).title # NoTitleFound
          THEN successful_scrapes + 1 ELSE successful_scrapes
    /\ phase' = "sleep"
    /\ UNCHANGED <<site, mode, src, all_urls, to_scrape, item, attempt, scraped,
                   archive_dates, archive_url, page_count, run_log,
                   outcomes, errors_before, attempted, last_io>>
    /\ UNCHANGED botVars

\* time.sleep(self.request_delay), then the next item or the end of the loop
RateLimit ==
    /\ phase = "sleep"
    /\ last_io' = "sleep"
    /\ IF item < Len(to_scrape)
       THEN /\ item' = item + 1
            /\ attempt' = 0
            /\ outcomes' = <<>>
            /\ errors_before' = stats.errors
            /\ scraped' = None
            /\ phase' = "fetch"
       ELSE /\ phase' = "summary"
            /\ UNCHANGED <<item, attempt, outcomes, errors_before, scraped>>
    /\ UNCHANGED <<storeVars, site, mode, src, all_urls, to_scrape, stats,
                   successful_scrapes, archive_dates, archive_url, page_count, run_log,
                   attempted>>
    /\ UNCHANGED botVars

\* log_scraping_session (full) / log_incremental_update (update)
Summary ==
    /\ phase = "summary"
    /\ run_log' = Append(run_log,
          IF mode = "full"
          THEN [table |-> "scraping_log", urls_found |-> stats.urls_found,
                articles_found |-> stats.articles_found,
                pages_scraped |-> stats.pages_scraped, errors |-> stats.errors]
          ELSE [table |-> "update_log", articles_checked |-> Cardinality(db),
                articles_updated |-> Len(to_scrape),
                successful_updates |-> successful_scrapes])
    /\ phase' = "done"
    /\ UNCHANGED <<storeVars, site, mode, src, all_urls, to_scrape, item, attempt, scraped, stats,
                   successful_scrapes, archive_dates, archive_url, page_count,
                   outcomes, errors_before, attempted, last_io>>
    /\ UNCHANGED botVars

SyncNext ==
    \/ \E m \in {"full", "update", "check"} : StartRun(m)
    \/ \E ok \in BOOLEAN : FetchSitemap(ok)
    \/ \E ok \in BOOLEAN : parse_individual_sitemap(ok)
    \/ SelectFull
    \/ Reconcile
    \/ AfterReconcile
    \/ \E ok \in BOOLEAN : ArchivePage(ok)
    \/ \E ok \in BOOLEAN, page \in SyncPages : FetchAttempt(ok, page)
    \/ \E dbError \in BOOLEAN : StoreItem(dbError)
    \/ RateLimit
    \/ Summary

SpecSync == SyncInit /\ [][SyncNext]_vars

\* the scraper is a sequential process: every request has a timeout and every
\* sleep ends, so a run that can take a step takes one
FairSpecSync == SpecSync /\ WF_vars(SyncNext)

-----------------------------------------------------------------------------
(* The bot process (bot.py): admin commands and browsing sessions.  All handlers
   are coroutines of one event loop: a handler runs from one await to the next
   without interleaving, and while a handler sits in a blocking call no other
   handler runs. *)

\* the site the bot's scraper runs read
SiteBot ==
    [sitemap |-> << UrlData(UrlRoot, None), UrlData(UrlA, Some(<<"1">>)) >>,
     index_sub |-> << >>,
     archive |-> << [dates |-> (UrlA :> Date24), older |-> None] >>]

BotPages == {PageGo}

\* syncVars without mode and phase
syncRest == <<site, src, all_urls, to_scrape, item, attempt, scraped, stats,
              successful_scrapes, archive_dates, archive_url, page_count, run_log,
              outcomes, errors_before, attempted, last_io>>

\* the scraper subprocess is gone; what it wrote to the database stays
ProcessExit ==
    /\ mode' = "none"
    /\ phase' = "idle"
    /\ src' = 1
    /\ all_urls' = <<>>
    /\ to_scrape' = <<>>
    /\ item' = 0
    /\ attempt' = 0
    /\ scraped' = None
    /\ stats' = ZeroStats
    /\ successful_scrapes' = 0
    /\ archive_dates' = NoArchiveDates
    /\ archive_url' = None
    /\ page_count' = 0
    /\ outcomes' = <<>>
    /\ errors_before' = 0
    /\ attempted' = {}
    /\ last_io' = "none"
    /\ UNCHANGED <<site, run_log>>

\* a handler is inside subprocess.run: the event loop runs nothing else
Blocked == \E r \in Requests : handler[r] = "running"

\* a user sends /quick-update-library or /rebuild-library
AdminCommand(r, cmd, m) ==
    /\ handler[r] = "none"
    /\ handler' = [handler EXCEPT ![r] = "pending"]
    /\ command' = [command EXCEPT ![r] = cmd]
    /\ member' = [member EXCEPT ![r] = m]
    /\ UNCHANGED <<storeVars, syncVars, admin_operation_lock, report, saw_locked, tested,
                   sessVars, persVars>>

\* a mutant of LockedCheck: the test is skipped
LockedCheckSkipped(locked) == FALSE

\* if admin_operation_lock.locked()
LockedCheck(locked) == locked

\* a mutant of LockAcquire: the lock is not taken
LockAcquireNoop(locked) == locked

\* async with admin_operation_lock, entered with the lock free: locked() afterwards
LockAcquire(locked) == TRUE

\* update_library_command / refresh_library_command up to their first await: the
\* permission test, the lock test and the entry of async with
AdminDispatch(r) ==
    /\ handler[r] = "pending"
    /\ command[r] \in {"update", "rebuild"}
    /\ ~Blocked
    /\ IF ~has_admin_role(member[r])
       THEN /\ handler' = [handler EXCEPT ![r] = "denied"]
            /\ UNCHANGED <<admin_operation_lock, saw_locked, tested>>
       ELSE /\ saw_locked' = [saw_locked EXCEPT ![r] = admin_operation_lock]
            /\ tested' = [tested EXCEPT ![r] = TRUE]
            /\ IF LockedCheck(admin_operation_lock)
               THEN /\ handler' = [handler EXCEPT ![r] = "rejected"]
                    /\ UNCHANGED admin_operation_lock
               ELSE /\ admin_operation_lock' = LockAcquire(admin_operation_lock)
                    /\ handler' = [handler EXCEPT ![r] = "starting"]
    /\ UNCHANGED <<storeVars, syncVars, command, member, report, sessVars, persVars>>

\* stats_command: the permission test, then validate_database and get_library_stats
\* (sqlError: the store cannot be queried; statsError: get_library_stats raised)
StatsCommand(r, sqlError, statsError) ==
    /\ handler[r] = "pending"
    /\ command[r] = "stats"
    /\ ~Blocked
    /\ IF ~has_admin_role(member[r])
       THEN /\ handler' = [handler EXCEPT ![r] = "denied"]
            /\ UNCHANGED report
       ELSE /\ handler' = [handler EXCEPT ![r] = "answered"]
            /\ report' = [report EXCEPT ![r] =
                   IF ~validate_database(db, sqlError)
                   THEN Some([kind |-> "database_error", stats |-> None])
                   ELSE IF statsError THEN Some([kind |-> "stats_error", stats |-> None])
                   ELSE Some([kind |-> "stats", stats |-> Some(GetContentStats(db))])]
    /\ UNCHANGED <<storeVars, syncVars, admin_operation_lock, command, member, saw_locked,
                   tested, sessVars, persVars>>

\* a mutant of AdminLaunch: the lock is acquired and released by hand, and the
\* exception of a send that raises passes the release by
AdminLaunchKeepsLock(r, sent) ==
    /\ handler[r] = "starting"
    /\ ~Blocked
    /\ phase = "idle"
    /\ IF sent
       THEN /\ handler' = [handler EXCEPT ![r] = "running"]
            /\ mode' = IF command[r] = "update" THEN "update" ELSE "full"
            /\ phase' = "sitemap"
       ELSE /\ handler' = [handler EXCEPT ![r] = "failed"]
            /\ UNCHANGED <<mode, phase>>
    /\ UNCHANGED admin_operation_lock
    /\ UNCHANGED <<storeVars, syncRest, command, member, report, saw_locked, tested,
                   sessVars, persVars>>

\* the "Starting ..." message was sent (or raised, which leaves async with), then
\* subprocess.run starts the scraper and blocks
AdminLaunch(r, sent) ==
    /\ handler[r] = "starting"
    /\ ~Blocked
    /\ phase = "idle"
    /\ IF sent
       THEN /\ handler' = [handler EXCEPT ![r] = "running"]
            /\ mode' = IF command[r] = "update" THEN "update" ELSE "full"
            /\ phase' = "sitemap"
            /\ UNCHANGED admin_operation_lock
       ELSE /\ handler' = [handler EXCEPT ![r] = "failed"]
            /\ admin_operation_lock' = FALSE
            /\ UNCHANGED <<mode, phase>>
    /\ UNCHANGED <<storeVars, syncRest, command, member, report, saw_locked, tested,
                   sessVars, persVars>>

\* subprocess.run returned with returncode 0: the success embed with fresh stats
\* (statsError: get_library_stats raised, the except Exception branch)
AdminRunReturns(r, statsError) ==
    /\ handler[r] = "running"
    /\ phase = "done"
    /\ report' = [report EXCEPT ![r] =
                     IF statsError THEN Some([kind |-> "error", stats |-> None])
                     ELSE Some([kind |-> "complete", stats |-> Some(GetContentStats(db))])]
    /\ handler' = [handler EXCEPT ![r] = "reporting"]
    /\ ProcessExit
    /\ UNCHANGED <<storeVars, admin_operation_lock, command, member, saw_locked, tested,
                   sessVars, persVars>>

\* subprocess.run ended before the scraper was through: TimeoutExpired (the child
\* is killed) or a returncode other than 0
AdminRunAborted(r, kind) ==
    /\ handler[r] = "running"
    /\ phase \notin {"idle", "done"}
    /\ report' = [report EXCEPT ![r] = Some([kind |-> kind, stats |-> None])]
    /\ handler' = [handler EXCEPT ![r] = "reporting"]
    /\ ProcessExit
    /\ UNCHANGED <<storeVars, admin_operation_lock, command, member, saw_locked, tested,
                   sessVars, persVars>>

\* edit_original_response is through (or raised): async with is left
AdminReported(r) ==
    /\ handler[r] = "reporting"
    /\ ~Blocked
    /\ handler' = [handler EXCEPT ![r] = "finished"]
    /\ admin_operation_lock' = FALSE
    /\ UNCHANGED <<storeVars, syncVars, command, member, report, saw_locked, tested,
                   sessVars, persVars>>

ClearValue == <<"c","l","e","a","r">>

\* what the user picks in a dropdown: its first entry ("All ...", value "clear") or
\* the first of the entries after it
Choices(options) == {ClearValue} \cup (IF options = <<>> THEN {} ELSE {options[1]})

\* what the user types into the search modal
SearchTexts == {<<>>, <<"z">>}

\* what the user of a session can send: /library while no view is open, the
\* components of the view once it is open
UserEvents(v) ==
    IF ~v.open THEN {Event("library", <<>>)}
    ELSE {Event("category", c) : c \in Choices(v.category_options)}
         \cup {Event("author", a) : a \in Choices(v.author_options)}
         \cup {Event("tag", t) : t \in Choices(v.tag_options)}
         \cup {Event("search", t) : t \in SearchTexts}
         \cup {Event("reset", <<>>), Event("previous", <<>>), Event("next", <<>>)}

\* the user of session s acts while the event loop is blocked: the interaction
\* waits until the event loop reads it
UserActs(s, ev) ==
    /\ Blocked
    /\ pending[s] = None
    /\ ev \in UserEvents(view[s])
    /\ pending' = [pending EXCEPT ![s] = Some(ev)]
    /\ UNCHANGED <<storeVars, syncVars, adminVars, persVars, view, tasks, last_event,
                   timeouts, timeout_raised, run>>

\* the interactions of s the event loop can hand to a handler now: the one that
\* waits, else whatever the user sends
Deliverable(s) == IF pending[s] = None THEN UserEvents(view[s]) ELSE {Val(pending[s])}

\* discord.py starts the callback of interaction ev of session s as a task of the
\* event loop; the callbacks of one view are tasks of their own
Delivered(s, ev) ==
    /\ ~Blocked
    /\ Len(tasks[s]) < MaxInFlight
    /\ ev \in Deliverable(s)
    /\ pending' = [pending EXCEPT ![s] = None]
    /\ last_event' = [last_event EXCEPT ![s] = ev]

\* a handler suspended at an await: the coroutine it belongs to and the await
Task(kind, at) == [kind |-> kind, at |-> at]

Spawn(s, t) == tasks' = [tasks EXCEPT ![s] = Append(@, t)]

Remove(seq, i) == SubSeq(seq, 1, i - 1) \o SubSeq(seq, i + 1, Len(seq))

\* the awaited call of task i of s returns and the event loop resumes the task
Resumes(s, i, kind, at) ==
    /\ ~Blocked
    /\ i \in 1..Len(tasks[s])
    /\ tasks[s][i] = Task(kind, at)

Moves(s, i, at) == tasks' = [tasks EXCEPT ![s][i].at = at]

Ends(s, i) == tasks' = [tasks EXCEPT ![s] = Remove(@, i)]

\* what a step of a session leaves alone
SessionFrame == UNCHANGED <<storeVars, syncVars, adminVars, persVars>>

DropdownLimit == 25
DropdownRoom == 24

\* seq[:n]
Take(seq, n) == SubSeq(seq, 1, Min(Len(seq), n))

\* get_dropdown_options()['categories'], then options[:24] of add_category_dropdown
DropdownCategories(table) == Take(Take(GetAllCategories(table), DropdownLimit), DropdownRoom)

\* get_dropdown_options()['authors'], then options[:24] of add_author_dropdown
DropdownAuthors(table) == Take(Take(GetAllAuthors(table), DropdownLimit), DropdownRoom)

\* get_dropdown_options()['tags'], then options[:24] of add_tag_dropdown
DropdownTags(table) == Take(Take(GetAllTagsWithCounts(table), DropdownLimit), DropdownRoom)

\* page_results of show_results: current_results[start_idx:end_idx]
PageResults(v) ==
    LET start_idx == v.current_page * RESULTS_PER_PAGE
        end_idx == start_idx + RESULTS_PER_PAGE
    IN  SubSeq(v.current_results, start_idx + 1, Min(end_idx, Len(v.current_results)))

\* history of the page presses: a run begins when page 0 is set, counts the
\* presses of next and then those of previous, and is broken by anything else
RunStart(r, v) ==
    IF r.counting
    THEN [r EXCEPT !.nexts = 0, !.prevs = 0, !.valid = TRUE, !.first = PageResults(v)]
    ELSE r

RunBroken(r) ==
    IF r.counting
    THEN [r EXCEPT !.nexts = 0, !.prevs = 0, !.valid = FALSE, !.first = <<>>]
    ELSE r

RunNext(r) ==
    IF r.counting /\ r.valid /\ r.prevs = 0 /\ r.nexts < MaxPresses
    THEN [r EXCEPT !.nexts = @ + 1] ELSE RunBroken(r)

RunPrev(r) ==
    IF r.counting /\ r.valid /\ r.prevs < r.nexts
    THEN [r EXCEPT !.prevs = @ + 1] ELSE RunBroken(r)

\* library_command up to its send_message: validate_database, then either the
\* error notice, or LibraryView(...) and get_library_stats
LibraryCommand(s, sqlError) ==
    /\ \E ev \in Deliverable(s) : ev.type = "library" /\ Delivered(s, ev)
    /\ tasks[s] = <<>>
    /\ IF ~validate_database(db, sqlError)
       THEN /\ view' = [view EXCEPT ![s].notice = "database_error"]
            /\ Spawn(s, Task("notice", "send"))
            /\ UNCHANGED <<timeouts, run>>
       ELSE /\ view' = [view EXCEPT ![s] =
                          [NoView EXCEPT !.category_options = DropdownCategories(db),
                                         !.author_options = DropdownAuthors(db),
                                         !.tag_options = DropdownTags(db),
                                         !.message = "welcome"]]
            /\ Spawn(s, Task("library", "send"))
            /\ timeouts' = [timeouts EXCEPT ![s] = 0]
            /\ run' = [run EXCEPT ![s] = RunStart(@, view'[s])]
    /\ UNCHANGED timeout_raised
    /\ SessionFrame

\* library_command after send_message and original_response: the message with the
\* view is shown and view._message is set
LibrarySent(s, i) ==
    /\ Resumes(s, i, "library", "send")
    /\ view' = [view EXCEPT ![s].open = TRUE, ![s].has_message = TRUE,
                            ![s].surface = "shown"]
    /\ Ends(s, i)
    /\ UNCHANGED <<pending, last_event, timeouts, timeout_raised, run>>
    /\ SessionFrame

\* the send_message of an ephemeral notice returned: the handler is through
NoticeSent(s, i) ==
    /\ Resumes(s, i, "notice", "send")
    /\ Ends(s, i)
    /\ UNCHANGED <<pending, view, last_event, timeouts, timeout_raised, run>>
    /\ SessionFrame

\* show_results: the embed of the current page, or "No Results Found"
ShowResults(v) ==
    [v EXCEPT !.message = IF v.current_results = <<>> THEN "no_results" ELSE "results"]

\* a mutant of UpdateResults: current_page is not assigned
UpdateResultsKeepsPage(v, results, raised) ==
    IF raised THEN [v EXCEPT !.message = "search_error"]
    ELSE ShowResults([v EXCEPT !.current_results = results])

\* update_results after defer: the view after a search that returned results, or
\* that raised
UpdateResults(v, results, raised) ==
    IF raised THEN [v EXCEPT !.message = "search_error"]
    ELSE ShowResults([v EXCEPT !.current_results = results, !.current_page = 0])

FiltersQuery(f) == Query(f.category, f.author, f.tag, f.search_term, SEARCH_RESULTS_LIMIT)

\* selected == "clear" ? None : selected
Selected(value) == IF value = ClearValue THEN None ELSE Some(value)

\* a mutant of FilterSet: current_filters is one dict of the class, which every
\* LibraryView writes
FilterSetShared(s, v) ==
    /\ view' = [t \in DOMAIN view |->
                  IF t = s THEN [v EXCEPT !.notice = "none"]
                  ELSE [view[t] EXCEPT !.current_filters = v.current_filters]]
    /\ Spawn(s, Task("update", "defer"))
    /\ run' = [run EXCEPT ![s] = RunBroken(@)]
    /\ UNCHANGED <<timeouts, timeout_raised>>
    /\ SessionFrame

\* a dropdown callback or on_submit up to the defer of update_results: the filter
\* is assigned, nothing else of the state
FilterSet(s, v) ==
    /\ view' = [view EXCEPT ![s] = [v EXCEPT !.notice = "none"]]
    /\ Spawn(s, Task("update", "defer"))
    /\ run' = [run EXCEPT ![s] = RunBroken(@)]
    /\ UNCHANGED <<timeouts, timeout_raised>>
    /\ SessionFrame

\* category_callback
CategoryCallback(s) ==
    \E ev \in Deliverable(s) :
        /\ ev.type = "category"
        /\ Delivered(s, ev)
        /\ FilterSet(s, [view[s] EXCEPT !.current_filters.category = Selected(ev.value)])

\* author_callback
AuthorCallback(s) ==
    \E ev \in Deliverable(s) :
        /\ ev.type = "author"
        /\ Delivered(s, ev)
        /\ FilterSet(s, [view[s] EXCEPT !.current_filters.author = Selected(ev.value)])

\* tag_callback
TagCallback(s) ==
    \E ev \in Deliverable(s) :
        /\ ev.type = "tag"
        /\ Delivered(s, ev)
        /\ FilterSet(s, [view[s] EXCEPT !.current_filters.tag = Selected(ev.value)])

\* SearchModal.on_submit
SearchSubmit(s) ==
    \E ev \in Deliverable(s) :
        /\ ev.type = "search"
        /\ Delivered(s, ev)
        /\ FilterSet(s, [view[s] EXCEPT !.current_filters.search_term =
                            IF ev.value # <<>> THEN Some(ev.value) ELSE None])

\* update_results from the return of defer to the edit_original_response it ends
\* with: search_library with the filters as they are now (raised: it raises)
SearchRuns(s, i, raised) ==
    /\ Resumes(s, i, "update", "defer")
    /\ \E results \in SearchContent(db, FiltersQuery(view[s].current_filters)) :
          view' = [view EXCEPT ![s] = UpdateResults(@, results, raised)]
    /\ run' = [run EXCEPT ![s] = IF raised THEN RunBroken(@) ELSE RunStart(@, view'[s])]
    /\ Moves(s, i, "edit")
    /\ UNCHANGED <<pending, last_event, timeouts, timeout_raised>>
    /\ SessionFrame

\* edit_original_response returned: the handler is through
EditDone(s, i) ==
    /\ \E kind \in {"update", "reset", "page"} : Resumes(s, i, kind, "edit")
    /\ Ends(s, i)
    /\ UNCHANGED <<pending, view, last_event, timeouts, timeout_raised, run>>
    /\ SessionFrame

\* reset_button up to its defer
ResetButton(s) ==
    /\ \E ev \in Deliverable(s) : ev.type = "reset" /\ Delivered(s, ev)
    /\ view' = [view EXCEPT ![s].current_filters = NoFilters,
                            ![s].current_results = <<>>,
                            ![s].current_page = 0,
                            ![s].notice = "none"]
    /\ Spawn(s, Task("reset", "defer"))
    /\ run' = [run EXCEPT ![s] = RunStart(@, view'[s])]
    /\ UNCHANGED <<timeouts, timeout_raised>>
    /\ SessionFrame

\* reset_button after defer: the welcome embed with get_library_stats (raised: the
\* error embed of the except branch)
ResetRenders(s, i, raised) ==
    /\ Resumes(s, i, "reset", "defer")
    /\ view' = [view EXCEPT ![s].message = IF raised THEN "reset_error" ELSE "welcome"]
    /\ Moves(s, i, "edit")
    /\ UNCHANGED <<pending, last_event, timeouts, timeout_raised, run>>
    /\ SessionFrame

\* previous_button with the comparison of current_page made against 1
PreviousButtonAboveOne(s) ==
    /\ \E ev \in Deliverable(s) : ev.type = "previous" /\ Delivered(s, ev)
    /\ IF view[s].current_page > 1
       THEN /\ view' = [view EXCEPT ![s].current_page = @ - 1, ![s].notice = "none"]
            /\ Spawn(s, Task("page", "defer"))
       ELSE /\ view' = [view EXCEPT ![s].notice = "first_page"]
            /\ Spawn(s, Task("notice", "send"))
    /\ run' = [run EXCEPT ![s] = RunPrev(@)]
    /\ UNCHANGED <<timeouts, timeout_raised>>
    /\ SessionFrame

\* previous_button up to its first await
PreviousButton(s) ==
    /\ \E ev \in Deliverable(s) : ev.type = "previous" /\ Delivered(s, ev)
    /\ IF view[s].current_page > 0
       THEN /\ view' = [view EXCEPT ![s].current_page = @ - 1, ![s].notice = "none"]
            /\ Spawn(s, Task("page", "defer"))
       ELSE /\ view' = [view EXCEPT ![s].notice = "first_page"]
            /\ Spawn(s, Task("notice", "send"))
    /\ run' = [run EXCEPT ![s] = RunPrev(@)]
    /\ UNCHANGED <<timeouts, timeout_raised>>
    /\ SessionFrame

\* total_pages of next_button
TotalPages(n) == (n + RESULTS_PER_PAGE - 1) \div RESULTS_PER_PAGE

\* a mutant of NextButton: the page goes up without the test against total_pages
NextButtonUnchecked(s) ==
    /\ \E ev \in Deliverable(s) : ev.type = "next" /\ Delivered(s, ev)
    /\ view' = [view EXCEPT ![s].current_page = @ + 1, ![s].notice = "none"]
    /\ Spawn(s, Task("page", "defer"))
    /\ run' = [run EXCEPT ![s] = RunNext(@)]
    /\ UNCHANGED <<timeouts, timeout_raised>>
    /\ SessionFrame

\* next_button up to its first await
NextButton(s) ==
    /\ \E ev \in Deliverable(s) : ev.type = "next" /\ Delivered(s, ev)
    /\ IF view[s].current_page < TotalPages(Len(view[s].current_results)) - 1
       THEN /\ view' = [view EXCEPT ![s].current_page = @ + 1, ![s].notice = "none"]
            /\ Spawn(s, Task("page", "defer"))
       ELSE /\ view' = [view EXCEPT ![s].notice = "last_page"]
            /\ Spawn(s, Task("notice", "send"))
    /\ run' = [run EXCEPT ![s] = RunNext(@)]
    /\ UNCHANGED <<timeouts, timeout_raised>>
    /\ SessionFrame

\* previous_button / next_button after defer: show_results
PageRenders(s, i) ==
    /\ Resumes(s, i, "page", "defer")
    /\ view' = [view EXCEPT ![s] = ShowResults(@)]
    /\ Moves(s, i, "edit")
    /\ UNCHANGED <<pending, last_event, timeouts, timeout_raised, run>>
    /\ SessionFrame

\* the exceptions the calls of on_timeout can raise, each with its base classes
ExceptionBases ==
    [NotFound |-> {"NotFound", "HTTPException", "Exception"},
     Forbidden |-> {"Forbidden", "HTTPException", "Exception"},
     HTTPException |-> {"HTTPException", "Exception"}]

\* a mutant of DeleteClauses: without the last clause
DeleteClausesSpecific == <<"NotFound", "Forbidden">>

\* the except clauses around self._message.delete()
DeleteClauses == <<"NotFound", "Forbidden", "Exception">>

\* the clause of a try statement that handles exc: the first one that names a base
\* class of it, 0 when there is none
HandlingClause(clauses, exc) ==
    IF \E k \in 1..Len(clauses) : clauses[k] \in ExceptionBases[exc]
    THEN CHOOSE k \in 1..Len(clauses) :
             /\ clauses[k] \in ExceptionBases[exc]
             /\ \A j \in 1..(k - 1) : clauses[j] \notin ExceptionBases[exc]
    ELSE 0

\* how self._message.delete() can end, given what there is to delete
DeleteOutcomes(surface) ==
    IF surface = "deleted" THEN {"NotFound"}
    ELSE {"ok", "NotFound", "Forbidden", "HTTPException"}

\* the timeout of the view fires: on_timeout up to the await of delete().  The
\* view has stopped and dispatches no more interactions.
OnTimeout(s) ==
    /\ ~Blocked
    /\ pending[s] = None
    /\ timeouts[s] < MaxTimeouts
    /\ Len(tasks[s]) < MaxInFlight
    /\ IF timeouts[s] = 0 THEN view[s].open /\ tasks[s] = <<>> ELSE TRUE
    /\ timeouts' = [timeouts EXCEPT ![s] = @ + 1]
    /\ view' = [view EXCEPT ![s].open = FALSE]
    /\ IF ~view[s].has_message
       THEN UNCHANGED tasks
       ELSE Spawn(s, Task("timeout", "delete"))
    /\ run' = [run EXCEPT ![s] = RunBroken(@)]
    /\ UNCHANGED <<pending, last_event, timeout_raised>>
    /\ SessionFrame

\* on_timeout after delete(): through when it succeeded, else the except clause of
\* what it raised
DeleteReturns(s, i, outcome) ==
    /\ Resumes(s, i, "timeout", "delete")
    /\ outcome \in DeleteOutcomes(view[s].surface)
    /\ IF outcome = "ok"
       THEN /\ view' = [view EXCEPT ![s].surface = "deleted"]
            /\ Ends(s, i)
            /\ UNCHANGED timeout_raised
       ELSE LET k == HandlingClause(DeleteClauses, outcome)
            IN  IF k = 0
                THEN /\ timeout_raised' = [timeout_raised EXCEPT ![s] = TRUE]
                     /\ Ends(s, i)
                     /\ UNCHANGED view
                ELSE IF DeleteClauses[k] = "NotFound"
                THEN /\ view' = [view EXCEPT ![s].surface = "deleted"]
                     /\ Ends(s, i)
                     /\ UNCHANGED timeout_raised
                ELSE IF DeleteClauses[k] = "Forbidden"
                THEN /\ Moves(s, i, "expire")
                     /\ UNCHANGED <<view, timeout_raised>>
                ELSE /\ Ends(s, i)
                     /\ UNCHANGED <<view, timeout_raised>>
    /\ UNCHANGED <<pending, last_event, timeouts, run>>
    /\ SessionFrame

\* on_timeout after self._message.edit(embed=timeout_embed, view=None) inside
\* try / except: pass
ExpireReturns(s, i, ok) ==
    /\ Resumes(s, i, "timeout", "expire")
    /\ IF ok
       THEN view' = [view EXCEPT ![s].surface = "expired", ![s].message = "expired"]
       ELSE UNCHANGED view
    /\ Ends(s, i)
    /\ UNCHANGED <<pending, last_event, timeouts, timeout_raised, run>>
    /\ SessionFrame

\* a handler of session s begins with an interaction, or goes on after an await
SessionStep(s) ==
    \/ \E sqlError \in BOOLEAN : LibraryCommand(s, sqlError)
    \/ CategoryCallback(s)
    \/ AuthorCallback(s)
    \/ TagCallback(s)
    \/ SearchSubmit(s)
    \/ ResetButton(s)
    \/ PreviousButton(s)
    \/ NextButton(s)
    \/ \E i \in 1..MaxInFlight :
          \/ LibrarySent(s, i)
          \/ NoticeSent(s, i)
          \/ \E raised \in BOOLEAN : SearchRuns(s, i, raised)
          \/ \E raised \in BOOLEAN : ResetRenders(s, i, raised)
          \/ PageRenders(s, i)
          \/ EditDone(s, i)

\* the timeout of session s
TimeoutStep(s) ==
    \/ OnTimeout(s)
    \/ \E i \in 1..MaxInFlight :
          \/ \E outcome \in {"ok", "NotFound", "Forbidden", "HTTPException"} :
                DeleteReturns(s, i, outcome)
          \/ \E ok \in BOOLEAN : ExpireReturns(s, i, ok)

-----------------------------------------------------------------------------
(* The persistent view (utils/views/library_view.py): one LibraryView for all
   users, fed by rss_parser and search_engine, which are handed to it from
   outside.  Its callbacks are tasks of the event loop like those of bot.py. *)

AllValue == <<"a","l","l">>

\* what rss_parser.discover_metadata returns
FeedCategories == << <<"M">> >>
FeedAuthors == << <<"A","l">> >>

\* what rss_parser.search_content and search_engine.search return: lists of
\* entries, here of 0, 3 and 7 entries
FeedResults == {[k \in 1..n |-> k] : n \in {0, 3, 7}}

\* the texts the users type into the search modal
ModalTexts == {<<>>, <<" ","z">>}

\* what the users of the persistent view can send: the buttons of the pages only
\* when the message shows them enabled
PersistentEvents(v) ==
    IF ~v.ready THEN {}
    ELSE {Event("category", c) : c \in {AllValue} \cup Range(Take(v.categories, DropdownRoom))}
         \cup {Event("author", a) : a \in {AllValue} \cup Range(Take(v.authors, DropdownRoom))}
         \cup {Event("search", t) : t \in ModalTexts}
         \cup {Event("refresh", <<>>), Event("clear", <<>>)}
         \cup (IF v.shown[1] THEN {} ELSE {Event("prev", <<>>)})
         \cup (IF v.shown[2] THEN {} ELSE {Event("next", <<>>)})

\* a callback of the persistent view suspended at an await; shows: the disabled
\* flags in the view that an edit_message in flight carries
PTask(kind, at, shows) == [kind |-> kind, at |-> at, shows |-> shows]

PersistentFrame == UNCHANGED <<storeVars, syncVars, adminVars, sessVars>>

\* the callback of interaction ev of the persistent view starts
PersistentDelivered(ev) ==
    /\ Len(ptasks) < MaxInFlight
    /\ ev \in PersistentEvents(pview)
    /\ plast' = ev

\* initialize_metadata, called once the view is made
initialize_metadata ==
    /\ ~pview.ready
    /\ pview' = [pview EXCEPT !.ready = TRUE, !.categories = FeedCategories,
                              !.authors = FeedAuthors,
                              !.prev_disabled = TRUE, !.next_disabled = TRUE]
    /\ UNCHANGED <<ptasks, plast>>
    /\ PersistentFrame

\* self.values[0] if self.values[0] != "all" else None
SelectedOrAll(value) == IF value = AllValue THEN None ELSE Some(value)

\* update_filters up to load_results: an argument that is None is not assigned
update_filters(v, category, author) ==
    [v EXCEPT !.current_category = IF category # None THEN category ELSE @,
              !.current_author = IF author # None THEN author ELSE @,
              !.current_page = 0]

\* load_results up to the await of rss_parser.search_content: the call is made
\* with the filters of the view
load_results(v) ==
    [v EXCEPT !.searched = Some([query |-> v.current_query,
                                 category |-> v.current_category,
                                 author |-> v.current_author])]

\* a // b of Python for b > 0: the floor of the quotient
FloorDiv(a, b) == a \div b

Max(a, b) == IF a > b THEN a ELSE b

\* update_navigation_buttons
update_navigation_buttons(v) ==
    LET max_pages == Max(0, FloorDiv(Len(v.current_results) - 1, v.results_per_page))
    IN  [v EXCEPT !.prev_disabled = (v.current_page = 0),
                  !.next_disabled = (v.current_page >= max_pages)]

\* update_display up to the await of edit_message: the view that is sent
update_display(v) == [update_navigation_buttons(v) EXCEPT !.reply = "edit"]

\* the edit_message that update_display of v awaits
EditOf(kind, v) == PTask(kind, "edit", <<v.prev_disabled, v.next_disabled>>)

\* CategorySelect.callback
CategorySelect_callback ==
    \E ev \in PersistentEvents(pview) :
        /\ ev.type = "category"
        /\ PersistentDelivered(ev)
        /\ pview' = load_results(update_filters(pview, SelectedOrAll(ev.value), None))
        /\ ptasks' = Append(ptasks, PTask("filters", "load", <<>>))
        /\ PersistentFrame

\* AuthorSelect.callback
AuthorSelect_callback ==
    \E ev \in PersistentEvents(pview) :
        /\ ev.type = "author"
        /\ PersistentDelivered(ev)
        /\ pview' = load_results(update_filters(pview, None, SelectedOrAll(ev.value)))
        /\ ptasks' = Append(ptasks, PTask("filters", "load", <<>>))
        /\ PersistentFrame

\* SearchModal.on_submit of library_view.py and update_search up to load_results
update_search ==
    \E ev \in PersistentEvents(pview) :
        /\ ev.type = "search"
        /\ PersistentDelivered(ev)
        /\ pview' = load_results([pview EXCEPT !.current_query = Strip(ev.value),
                                               !.current_page = 0])
        /\ ptasks' = Append(ptasks, PTask("search", "load", <<>>))
        /\ PersistentFrame

\* refresh_callback up to load_results
refresh_callback ==
    /\ PersistentDelivered(Event("refresh", <<>>))
    /\ pview' = load_results(pview)
    /\ ptasks' = Append(ptasks, PTask("refresh", "load", <<>>))
    /\ PersistentFrame

\* clear_filters_callback up to the await inside initialize_metadata
clear_filters_callback ==
    /\ PersistentDelivered(Event("clear", <<>>))
    /\ pview' = [pview EXCEPT !.current_category = None, !.current_author = None,
                              !.current_query = <<>>, !.current_page = 0]
    /\ ptasks' = Append(ptasks, PTask("clear", "metadata", <<>>))
    /\ PersistentFrame

\* clear_filters_callback after discover_metadata: the items of the view are made
\* anew, then load_results
metadata_returns(i) ==
    /\ i \in 1..Len(ptasks)
    /\ ptasks[i] = PTask("clear", "metadata", <<>>)
    /\ pview' = load_results([pview EXCEPT !.categories = FeedCategories,
                                           !.authors = FeedAuthors,
                                           !.prev_disabled = TRUE,
                                           !.next_disabled = TRUE])
    /\ ptasks' = [ptasks EXCEPT ![i] = PTask("clear", "load", <<>>)]
    /\ UNCHANGED plast
    /\ PersistentFrame

\* load_results after rss_parser.search_content (raised: the except branch), then
\* update_display up to its edit_message
load_returns(i, results, raised) ==
    /\ i \in 1..Len(ptasks)
    /\ ptasks[i].at = "load"
    /\ LET v == update_display([pview EXCEPT !.current_results =
                                   IF raised THEN <<>> ELSE results])
       IN  /\ pview' = v
           /\ ptasks' = [ptasks EXCEPT ![i] = EditOf(ptasks[i].kind, v)]
    /\ UNCHANGED plast
    /\ PersistentFrame

\* edit_message returned: the users see the message as it was sent
edit_returns(i) ==
    /\ i \in 1..Len(ptasks)
    /\ ptasks[i].at = "edit"
    /\ pview' = [pview EXCEPT !.shown = ptasks[i].shows]
    /\ ptasks' = Remove(ptasks, i)
    /\ UNCHANGED plast
    /\ PersistentFrame

\* prev_page_callback
prev_page_callback ==
    /\ PersistentDelivered(Event("prev", <<>>))
    /\ IF pview.current_page > 0
       THEN LET v == update_display([pview EXCEPT !.current_page = @ - 1])
            IN  /\ pview' = v
                /\ ptasks' = Append(ptasks, EditOf("page", v))
       ELSE /\ pview' = [pview EXCEPT !.reply = "none"]
            /\ UNCHANGED ptasks
    /\ PersistentFrame

\* next_page_callback
next_page_callback ==
    /\ PersistentDelivered(Event("next", <<>>))
    /\ LET max_pages == FloorDiv(Len(pview.current_results) - 1, pview.results_per_page)
       IN  IF pview.current_page < max_pages
           THEN LET v == update_display([pview EXCEPT !.current_page = @ + 1])
                IN  /\ pview' = v
                    /\ ptasks' = Append(ptasks, EditOf("page", v))
           ELSE /\ pview' = [pview EXCEPT !.reply = "none"]
                /\ UNCHANGED ptasks
    /\ PersistentFrame

PersistentInit ==
    /\ CatalogIs(Store1)
    /\ site = SiteBot
    /\ SyncIdle
    /\ BotIdle
    /\ NotCounting

PersistentNext ==
    \/ initialize_metadata
    \/ CategorySelect_callback
    \/ AuthorSelect_callback
    \/ update_search
    \/ refresh_callback
    \/ clear_filters_callback
    \/ prev_page_callback
    \/ next_page_callback
    \/ \E i \in 1..MaxInFlight :
          \/ metadata_returns(i)
          \/ \E results \in FeedResults, raised \in BOOLEAN : load_returns(i, results, raised)
          \/ edit_returns(i)

SpecPersistent == PersistentInit /\ [][PersistentNext]_vars

-----------------------------------------------------------------------------
(* The bot of bot.py as a whole *)

BotInit ==
    /\ CatalogIs(Store1)
    /\ site = SiteBot
    /\ SyncIdle
    /\ BotIdle
    /\ NotCounting

\* the steps of the scraper subprocess that a handler started
ScraperStep ==
    \/ \E ok \in BOOLEAN : FetchSitemap(ok)
    \/ \E ok \in BOOLEAN : parse_individual_sitemap(ok)
    \/ SelectFull
    \/ Reconcile
    \/ AfterReconcile
    \/ \E ok \in BOOLEAN : ArchivePage(ok)
    \/ \E ok \in BOOLEAN, page \in BotPages : FetchAttempt(ok, page)
    \/ \E dbError \in BOOLEAN : StoreItem(dbError)
    \/ RateLimit
    \/ Summary

\* the steps of the handlers of the admin commands
AdminStep ==
    \/ \E r \in Requests : AdminDispatch(r)
    \/ \E r \in Requests, sent \in BOOLEAN : AdminLaunch(r, sent)
    \/ \E r \in Requests, statsError \in BOOLEAN : AdminRunReturns(r, statsError)
    \/ \E r \in Requests, kind \in {"timeout", "failed"} : AdminRunAborted(r, kind)
    \/ \E r \in Requests : AdminReported(r)

\* admin commands from any users in any order, and the runs they start
BotNext ==
    \/ \E r \in Requests, cmd \in {"update", "rebuild", "stats"}, m \in Members :
          AdminCommand(r, cmd, m)
    \/ AdminStep
    \/ \E r \in Requests, sqlError \in BOOLEAN, statsError \in BOOLEAN :
          StatsCommand(r, sqlError, statsError)
    \/ ScraperStep

SpecBot == BotInit /\ [][BotNext]_vars

\* the interactions the users send in SpecBrowse
BrowseTypes == {"library", "category", "next"}

\* browsing sessions next to one admin command and the run it starts
BrowseNext ==
    \/ \E cmd \in {"update", "rebuild"}, m \in Members : AdminCommand(1, cmd, m)
    \/ AdminStep
    \/ ScraperStep
    \/ \E s \in Sessions : \E ev \in UserEvents(view[s]) :
          ev.type \in BrowseTypes /\ UserActs(s, ev)
    \/ \E s \in Sessions :
          \/ \E sqlError \in BOOLEAN : LibraryCommand(s, sqlError)
          \/ CategoryCallback(s)
          \/ NextButton(s)
          \/ \E i \in 1..MaxInFlight :
                \/ LibrarySent(s, i)
                \/ NoticeSent(s, i)
                \/ \E raised \in BOOLEAN : SearchRuns(s, i, raised)
                \/ EditDone(s, i)

SpecBrowse == BotInit /\ [][BrowseNext]_vars

\* a store whose only record is of a page without a title: scrape_success is false
StoreFailed ==
    InsertOrReplace({}, RowOf(ExtractMetadata(PageNoTitle, UrlData(UrlB, Some(<<"1">>)),
                                              NoArchiveDates), 1, 1))

\* a catalog of n articles, the first seven of one author, the others of another
Library(n) ==
    {RowOf(ExtractMetadata(IF i <= 7 THEN PageGo ELSE PageHi,
                           UrlData(LibPath \o <<"/">> \o [j \in 1..i |-> "x"], Some(<<"1">>)),
                           NoArchiveDates), i, i) : i \in 1..n}

\* the catalogs the bot is started with: none, one without a successful record,
\* one of two records, one of a record more than a page shows
SessionStores == {{}, StoreFailed, Store1, Library(RESULTS_PER_PAGE + 1)}

SessionInit ==
    /\ \E table \in SessionStores : CatalogIs(table)
    /\ site = SiteBot
    /\ SyncIdle
    /\ BotIdle
    /\ NotCounting

\* a scraper process started from the shell stores a record while the bot runs
SessionWrite ==
    /\ writes < MaxWrites + 1
    /\ StoreData(ExtractMetadata(PageGo, UrlData(UrlA, Some(<<"1">>)), NoArchiveDates), FALSE, 1)
    /\ UNCHANGED <<syncVars, botVars>>

\* browsing sessions with users that do not wait for the answer to what they sent
SessionNext ==
    \/ \E s \in Sessions : SessionStep(s)
    \/ \E s \in Sessions : TimeoutStep(s)
    \/ SessionWrite

SpecSession == SessionInit /\ [][SessionNext]_vars

PagingInit ==
    /\ CatalogIs(Library(LibrarySize))
    /\ site = SiteBot
    /\ SyncIdle
    /\ BotIdle
    /\ Counting

\* browsing sessions over a catalog of several pages: searches and page presses
PagingNext ==
    \E s \in Sessions :
        \/ LibraryCommand(s, FALSE)
        \/ CategoryCallback(s)
        \/ AuthorCallback(s)
        \/ TagCallback(s)
        \/ SearchSubmit(s)
        \/ PreviousButton(s)
        \/ NextButton(s)
        \/ \E i \in 1..MaxInFlight :
              \/ LibrarySent(s, i)
              \/ NoticeSent(s, i)
              \/ \E raised \in BOOLEAN : SearchRuns(s, i, raised)
              \/ PageRenders(s, i)
              \/ EditDone(s, i)

SpecPaging == PagingInit /\ [][PagingNext]_vars

-----------------------------------------------------------------------------
(* The catalog under arbitrary writes: store_data called with whatever          *)
(* extract_metadata can produce, in any order                                   *)

StoreUrls == {UrlA, UrlB}
StoreLastmods == {None, Some(<<"1">>)}

StoreInit ==
    /\ db = {}
    /\ nextId = 1
    /\ clock = 0
    /\ lastData = [u \in ArticleUrls |-> None]
    /\ writes = 0
    /\ lastCall = NoCall
    /\ SyncIdle
    /\ site = Site1
    /\ BotIdle
    /\ NotCounting

StoreWrite ==
    /\ writes < MaxWrites
    /\ \E u \in StoreUrls, p \in Pages, lm \in StoreLastmods,
          dbError \in BOOLEAN, dt \in {0, 1} :
          StoreData(ExtractMetadata(p, UrlData(u, lm), NoArchiveDates), dbError, dt)
    /\ UNCHANGED syncVars
    /\ UNCHANGED botVars

StoreNext == StoreWrite

SpecStore == StoreInit /\ [][StoreNext]_vars

-----------------------------------------------------------------------------
(* Properties of the catalog and its read side *)

\* the filter combinations the properties range over
CategoryOptions == {None, Some(<<"M">>), Some(<<"Q">>)}
AuthorOptions == {None, Some(<<"A","l">>)}
TagOptions == {None, Some(<<"g">>)}
TermOptions == {None, Some(<<"o">>), Some(<<"_">>)}
Limits == {1, SEARCH_RESULTS_LIMIT}

Queries ==
    {Query(c, a, t, s, n) : c \in CategoryOptions, a \in AuthorOptions, t \in TagOptions,
                            s \in TermOptions, n \in Limits}

\* C8: a record with scrape_success = false is never returned by search_content,
\* whatever the filters, and contributes nothing to the category, author and tag
\* listings or to the statistics: each of them is what it would be if the failed
\* records were not in the table.
C8_FailedRecordsInvisible ==
    /\ \A q \in Queries : \A res \in SearchContent(db, q) : \A i \in 1..Len(res) :
          ~ \E r \in db : ~r.scrape_success /\ r.url = res[i].url
    /\ GetAllCategories(db) = GetAllCategories(Successful(db))
    /\ GetAllAuthors(db) = GetAllAuthors(Successful(db))
    /\ GetAllTagsWithCounts(db) = GetAllTagsWithCounts(Successful(db))
    /\ GetContentStats(db) = GetContentStats(Successful(db))
    /\ GetContentStats(db).total_articles = Cardinality(Successful(db))

\* a failed record with its own category, author and tag lies beside a visible
\* record, and the listings show the visible record's values only
C8_Witness ==
    /\ \E r \in db : ~r.scrape_success /\ r.categories = <<"Q">> /\ r.author = <<"C","y">>
    /\ \E r \in db : r.scrape_success /\ r.categories = <<"M">>
    /\ GetAllCategories(db) = << <<"M">> >>
    /\ GetAllAuthors(db) = << <<"B","o">> >>
    /\ GetAllTagsWithCounts(db) = << <<"g">> >>
    /\ GetContentStats(db).total_articles = 1

\* C9: the catalog holds at most one record per url; every record holds, in all
\* nine written columns, the data of the latest committed store_data for its url;
\* and a committed store_data for a url that had a record leaves the number of
\* records as it was (one for a new url adds one).
C9_UpsertReplaces ==
    /\ \A r1, r2 \in db : r1.url = r2.url => r1 = r2
    /\ \A r \in db : lastData[r.url] = Some(DataOf(r))
    /\ \A u \in DOMAIN lastData : lastData[u] # None => \E r \in db : r.url = u
    /\ lastCall.committed =>
          Cardinality(db) = lastCall.sizeBefore + (IF lastCall.existed THEN 0 ELSE 1)
    /\ ~lastCall.committed /\ lastCall.url # None => Cardinality(db) = lastCall.sizeBefore

\* a record was overwritten by data that differs from it
C9_Witness ==
    /\ lastCall.committed
    /\ lastCall.existed
    /\ lastCall.changed
    /\ Cardinality(db) = 1
    /\ lastCall.sizeBefore = 1

\* what C10 says a record must satisfy: substring, exact and membership tests,
\* read without regard to case as section 4.1 of the specification words it
ContainsCI(s, sub) == Contains(LowerStr(s), LowerStr(sub))

ClaimedMatch(r, q) ==
    /\ r.scrape_success
    /\ Truthy(q.category) => ContainsCI(r.categories, Val(q.category))
    /\ Truthy(q.author) => r.author = Val(q.author)
    /\ Truthy(q.tag) => \E t \in Range(JsonLoads(r.tags)) : LowerStr(t) = LowerStr(Val(q.tag))
    /\ Truthy(q.search_term) =>
          \/ ContainsCI(r.title, Val(q.search_term))
          \/ ContainsCI(r.categories, Val(q.search_term))
          \/ ContainsCI(r.author, Val(q.search_term))
          \/ ContainsCI(r.tags, Val(q.search_term))
          \/ ContainsCI(r.description, Val(q.search_term))

\* C10: search_content returns exactly the successful records that satisfy all
\* supplied filters (substring of categories, exact author, tag membership, search
\* term a substring of title, categories, author, tags or description), the first
\* `limit` of them by published_date descending, then scraped_at descending.
C10_SearchReturnsExactlyTheMatches ==
    \A q \in Queries : \A rows \in SearchRows(db, q) :
        LET claimed == {r \in db : ClaimedMatch(r, q)}
        IN  /\ Range(rows) \subseteq claimed
            /\ Len(rows) = Min(q.limit, Cardinality(claimed))
            /\ \A i, j \in 1..Len(rows) : i < j => OrderedBefore(rows[i], rows[j])
            /\ \A x \in claimed \ Range(rows) : \A i \in 1..Len(rows) : OrderedBefore(rows[i], x)

-----------------------------------------------------------------------------
(* Properties of the scraper run *)

HasRecord(url) == \E r \in db : r.url = url

StoredLastmod(url) == (CHOOSE r \in db : r.url = url).last_modified

\* the positions of the manifest that hold article entries
ManifestArticles == {k \in 1..Len(all_urls) : is_article_url(all_urls[k].url)}

\* new, or changed as far as a manifest lastmod says so
NewOrChanged(e) ==
    \/ ~HasRecord(e.url)
    \/ /\ HasRecord(e.url)
       /\ Truthy(e.lastmod)
       /\ StoredLastmod(e.url) # e.lastmod

\* new, or stored last_modified different from the manifest's
NewOrDifferent(e) ==
    \/ ~HasRecord(e.url)
    \/ /\ HasRecord(e.url)
       /\ StoredLastmod(e.url) # e.lastmod

\* C4 (amended): when check_for_updates has returned, it has selected a manifest
\* article entry exactly if the store holds no record of its url, or holds one and
\* the entry carries a lastmod that differs from the stored last_modified; an
\* entry without lastmod, or with a matching one, is skipped when a record exists.
C4_ReconcileSelectsNewAndChanged ==
    phase = "selected" =>
        /\ Range(to_scrape) = {all_urls[k] : k \in {j \in ManifestArticles : NewOrChanged(all_urls[j])}}
        /\ Len(to_scrape) = Cardinality({j \in ManifestArticles : NewOrChanged(all_urls[j])})

\* C4 as stated: selected exactly if there is no record or the stored
\* last_modified differs from the manifest's lastmod
C4_Original ==
    phase = "selected" =>
        /\ Range(to_scrape) = {all_urls[k] : k \in {j \in ManifestArticles : NewOrDifferent(all_urls[j])}}
        /\ Len(to_scrape) = Cardinality({j \in ManifestArticles : NewOrDifferent(all_urls[j])})

\* the manifest lists A (no record), B (record, same lastmod) and C (record, other
\* lastmod), and exactly A and C are selected
C4_Witness ==
    /\ phase = "selected"
    /\ {UrlA, UrlB, UrlC} \subseteq {all_urls[k].url : k \in 1..Len(all_urls)}
    /\ ~HasRecord(UrlA)
    /\ HasRecord(UrlB) /\ StoredLastmod(UrlB) = Some(<<"1">>)
    /\ \E k \in 1..Len(all_urls) : all_urls[k] = UrlData(UrlB, Some(<<"1">>))
    /\ HasRecord(UrlC) /\ StoredLastmod(UrlC) = Some(<<"1">>)
    /\ \E k \in 1..Len(all_urls) : all_urls[k] = UrlData(UrlC, Some(<<"2">>))
    /\ {to_scrape[k].url : k \in 1..Len(to_scrape)} = {UrlA, UrlC}

\* C5: once an incremental run has ended, check_for_updates over the same manifest
\* and the store as the run left it selects nothing
C5_ReconcileIdempotent ==
    (phase = "done" /\ mode = "update") => check_for_updates(all_urls, db) = <<>>

AllFailed(seq) == \A k \in 1..Len(seq) : seq[k] = "fail"

\* C6, the state part: a run that selected entries ends with a summary row and
\* with a fetch attempt made for every selected entry; inside the loop every
\* entry before the current one had its attempt, whatever became of it
C6_EveryItemAttempted ==
    /\ phase \in {"fetch", "store", "sleep"} =>
          /\ item \in 1..Len(to_scrape)
          /\ 1..(item - 1) \subseteq attempted
    /\ phase \in {"store", "sleep"} => item \in attempted
    /\ phase = "summary" => attempted = 1..Len(to_scrape)
    /\ (phase = "done" /\ mode \in {"full", "update"} /\ to_scrape # <<>>) =>
          /\ attempted = 1..Len(to_scrape)
          /\ Len(run_log) = 1

C7_RetriesBounded ==
    /\ Len(outcomes) <= 3
    /\ \A k \in 1..(Len(outcomes) - 1) : outcomes[k] = "fail"
    /\ phase = "fetch" => (AllFailed(outcomes) /\ Len(outcomes) < 3)
    /\ phase = "store" => (outcomes # <<>> /\ outcomes[Len(outcomes)] = "ok" /\ scraped # None)
    /\ (Len(outcomes) = 3 /\ AllFailed(outcomes)) =>
          (phase # "fetch" /\ scraped = None /\ stats.errors = errors_before + 1)
    /\ ~(Len(outcomes) = 3 /\ AllFailed(outcomes)) => stats.errors = errors_before

\* C7: fetch retries are bounded: scrape_page makes at most 3 attempts for the
\* entry it is called with, stops at the first success, after the third failure
\* returns None with the error counter incremented exactly once, and the retry
\* loop always ends
C7_FetchRetriesBounded ==
    /\ [] C7_RetriesBounded
    /\ \A k \in 1..(Len(Site1.sitemap) + Len(Site1.index_sub)) :
          (phase = "fetch" /\ item = k) ~> ~(phase = "fetch" /\ item = k)

\* scrape_page has given up after three failed attempts and counted it
C7_Witness ==
    /\ outcomes = <<"fail", "fail", "fail">>
    /\ phase = "sleep"
    /\ scraped = None
    /\ stats.errors = errors_before + 1

-----------------------------------------------------------------------------
(* Properties of the bot *)

\* the admin handlers that have started the scraper and have not finished
InFlight == {r \in Requests : handler[r] \in {"running", "reporting"}}

\* the admin handlers inside async with admin_operation_lock
InsideLock == {r \in Requests : handler[r] \in {"starting", "running", "reporting"}}

\* C1: at most one sync run is in progress: whatever update and rebuild commands
\* arrive from whatever users and in whatever order, at most one admin handler
\* has started the scraper and not yet finished; at most one is inside the lock,
\* and a scraper process exists only under the handler that waits for it
C1_AtMostOneSyncRun ==
    /\ Cardinality(InFlight) <= 1
    /\ Cardinality(InsideLock) <= 1
    /\ phase # "idle" => \E r \in Requests : handler[r] = "running"
    /\ Cardinality(InsideLock) = 1 <=> admin_operation_lock

\* an update is running its scraper while a rebuild by another request was turned away
C1_Witness ==
    \E r, q \in Requests :
        /\ r # q
        /\ handler[r] = "running" /\ command[r] = "update" /\ phase = "fetch"
        /\ handler[q] = "rejected" /\ command[q] = "rebuild"

\* a handler that finds the lock held ends as rejected, for good, and with
\* nothing to report; a success report shows the stats of the store as it is
C2_RejectedNeverRuns ==
    /\ \A r \in Requests :
          saw_locked[r] => (handler[r] = "rejected" /\ report[r] = None)
    /\ \A r \in Requests :
          (handler[r] = "reporting" /\ Val(report[r]).kind = "complete") =>
              Val(report[r]).stats = Some(GetContentStats(db))

\* the step that rejects a command changes nothing but that command's handler
C2_RejectionTouchesNothing ==
    \A r \in Requests :
        (handler[r] = "pending" /\ handler'[r] = "rejected") =>
            /\ admin_operation_lock /\ admin_operation_lock'
            /\ UNCHANGED <<storeVars, syncVars, report>>
            /\ \A q \in Requests \ {r} : handler'[q] = handler[q]

SyncInProgress == \E r \in Requests : handler[r] = "running"

\* C3: while a sync run is in progress the events of every browsing session go on
\* being handled: an event that has been sent can have its handler run now, it
\* does not have to wait for the run to finish
C3_SessionsServedDuringSync ==
    \A s \in Sessions :
        (SyncInProgress /\ pending[s] # None) => ENABLED SessionStep(s)

-----------------------------------------------------------------------------
(* Properties of the browsing sessions *)

FilterFields == {"category", "author", "tag", "search_term"}

\* the filter field an interaction is about
FieldOf(ev) == IF ev.type = "search" THEN "search_term" ELSE ev.type

\* what an interaction asks its filter field to be: none for the clear entry of a
\* dropdown and for an empty search text, else the value
Asked(ev) ==
    IF ev.type = "search" THEN (IF ev.value = <<>> THEN None ELSE Some(ev.value))
    ELSE (IF ev.value = ClearValue THEN None ELSE Some(ev.value))

\* the step is the callback of a dropdown or of the search modal taking its interaction
FilterEventStep(s) ==
    CategoryCallback(s) \/ AuthorCallback(s) \/ TagCallback(s) \/ SearchSubmit(s)

\* C11, first part: the callback assigns the one filter field of its interaction
\* and no other field, and neither results nor page
SetsExactlyOneFilter(s) ==
    FilterEventStep(s) =>
        LET ev == last_event'[s]
        IN  /\ view'[s].current_filters[FieldOf(ev)] = Asked(ev)
            /\ \A f \in FilterFields \ {FieldOf(ev)} :
                   view'[s].current_filters[f] = view[s].current_filters[f]
            /\ view'[s].current_results = view[s].current_results
            /\ view'[s].current_page = view[s].current_page

\* C11, second part: the search of the transition, when it does not fail, leaves
\* the filters, sets page 0 and makes results a result of the search on the filters
SearchRefreshes(s) ==
    \A i \in 1..MaxInFlight :
        SearchRuns(s, i, FALSE) =>
            /\ view'[s].current_filters = view[s].current_filters
            /\ view'[s].current_page = 0
            /\ view'[s].current_results \in
                   SearchContent(db, FiltersQuery(view'[s].current_filters))

\* C11: a dropdown selection (category, author, tag) sets or clears exactly its
\* own filter field and leaves the other three alone, a submitted search text
\* changes search_term only, and the search of a transition that succeeds sets
\* page to 0 and replaces results by a fresh search on the filters.
C11_SelectionSetsOneFilter ==
    [][\A s \in Sessions : SetsExactlyOneFilter(s) /\ SearchRefreshes(s)]_vars

\* an author was selected on top of a category, and the search of that selection
\* replaced the results and is through
C11_Witness ==
    \E s \in Sessions :
        /\ last_event[s] = Event("author", <<"A","l">>)
        /\ tasks[s] = <<>>
        /\ view[s].current_filters.category = Some(<<"M">>)
        /\ view[s].current_filters.author = Some(<<"A","l">>)
        /\ Len(view[s].current_results) = 7
        /\ view[s].current_page = 0
        /\ view[s].message = "results"

\* the step is a dropdown callback of bot.py taking the selection of the clear entry
ClearSelected(s) ==
    /\ CategoryCallback(s) \/ AuthorCallback(s) \/ TagCallback(s)
    /\ last_event'[s].value = ClearValue

\* bot.py: after the clear entry was selected the filter is none, and so is the
\* argument of search_library made of it
BotClearClears(s) ==
    ClearSelected(s) =>
        /\ view'[s].current_filters[last_event'[s].type] = None
        /\ FiltersQuery(view'[s].current_filters)[last_event'[s].type] = None

\* library_view.py: after "All Categories" or "All Authors" was selected the
\* filter is none, and so is the argument of the search_content call that follows
PersistentClearClears ==
    /\ (CategorySelect_callback /\ plast'.value = AllValue) =>
            /\ pview'.current_category = None
            /\ Val(pview'.searched).category = None
    /\ (AuthorSelect_callback /\ plast'.value = AllValue) =>
            /\ pview'.current_author = None
            /\ Val(pview'.searched).author = None

\* C12: in both variants of the interface, selecting the clear entry of a dropdown
\* ("All Categories", "All Authors", "All Tags") leaves that filter none, also
\* when it was set before, so that the search that follows is not restricted by it.
C12_ClearOptionClears ==
    [][(\A s \in Sessions : BotClearClears(s)) /\ PersistentClearClears]_vars

\* no result lies beyond the page: (page + 1) * 5 reaches the number of results
OnLastPage(page, n, size) == (page + 1) * size >= n

\* bot.py, previous_button and next_button: filters and results stay; at page 0
\* resp. on the last page the page stays and a notice is sent; else the page
\* moves by one.  Their show_results after the defer changes none of the three.
BotPaging(s) ==
    /\ PreviousButton(s) =>
           /\ view'[s].current_filters = view[s].current_filters
           /\ view'[s].current_results = view[s].current_results
           /\ IF view[s].current_page = 0
              THEN view'[s].current_page = 0 /\ view'[s].notice = "first_page"
              ELSE view'[s].current_page = view[s].current_page - 1
    /\ NextButton(s) =>
           /\ view'[s].current_filters = view[s].current_filters
           /\ view'[s].current_results = view[s].current_results
           /\ IF OnLastPage(view[s].current_page, Len(view[s].current_results), RESULTS_PER_PAGE)
              THEN /\ view'[s].current_page = view[s].current_page
                   /\ view'[s].notice = "last_page"
              ELSE view'[s].current_page = view[s].current_page + 1
    /\ \A i \in 1..MaxInFlight :
           PageRenders(s, i) =>
               /\ view'[s].current_filters = view[s].current_filters
               /\ view'[s].current_results = view[s].current_results
               /\ view'[s].current_page = view[s].current_page

\* the filters, the results and the latest search call of the persistent view
PersistentQueryState(v) ==
    <<v.current_category, v.current_author, v.current_query, v.current_results, v.searched>>

\* library_view.py, prev_page_callback and next_page_callback: the same
PersistentPaging ==
    /\ prev_page_callback =>
           /\ PersistentQueryState(pview') = PersistentQueryState(pview)
           /\ IF pview.current_page = 0
              THEN pview'.current_page = 0 /\ pview'.reply = "notice"
              ELSE pview'.current_page = pview.current_page - 1
    /\ next_page_callback =>
           /\ PersistentQueryState(pview') = PersistentQueryState(pview)
           /\ IF OnLastPage(pview.current_page, Len(pview.current_results),
                            pview.results_per_page)
              THEN /\ pview'.current_page = pview.current_page
                   /\ pview'.reply = "notice"
              ELSE pview'.current_page = pview.current_page + 1

\* C13: nextPage and prevPage never change filters or results and never run the
\* search again; prevPage at page 0 and nextPage on the last page (also with no
\* results) leave the page and send a notice the user sees; otherwise the page
\* moves by exactly one.
C13_PagingKeepsQuery ==
    [][(\A s \in Sessions : BotPaging(s)) /\ PersistentPaging]_vars

\* C13 for bot.py alone
BotPagingKeepsQuery == [][\A s \in Sessions : BotPaging(s)]_vars

\* C14: from page 0, k presses of Next followed by k presses of Previous, with
\* no step of another event in between, bring the session back to page 0 showing
\* the same first-page slice, for every k up to MaxPresses, also beyond the
\* number of pages; page size 5, in particular 12 results and k = 3.
C14_PagingRoundTrip ==
    \A s \in Sessions :
        (run[s].valid /\ run[s].nexts = run[s].prevs) =>
            /\ view[s].current_page = 0
            /\ PageResults(view[s]) = run[s].first
            /\ run[s].first = Take(view[s].current_results, RESULTS_PER_PAGE)

C14_Witness ==
    \E s \in Sessions :
        /\ run[s].valid /\ run[s].nexts = 3 /\ run[s].prevs = 3
        /\ Len(view[s].current_results) = 12
        /\ last_event[s].type = "previous"
        /\ tasks[s] = <<>>

\* the same with more presses than pages: 7 results are two pages
C14_BeyondLastPage ==
    \E s \in Sessions :
        /\ run[s].valid /\ run[s].nexts = 3 /\ run[s].prevs = 3
        /\ Len(view[s].current_results) = 7

\* reset was the last event delivered to session s, none of its handlers is
\* still in flight, and the session has not timed out
ResetSettled(s) ==
    /\ last_event[s].type = "reset"
    /\ tasks[s] = <<>>
    /\ view[s].open
    /\ timeouts[s] = 0

\* filters, results and page of session s are those of a fresh session
SessionCleared(s) ==
    /\ view[s].current_filters = NoFilters
    /\ view[s].current_results = <<>>
    /\ view[s].current_page = 0

\* C15: whenever reset was the last event delivered to a session and no handler
\* of the session is in flight, the four filters are none, the results are empty,
\* the page is 0 and the welcome content is rendered.
C15_ResetClearsSession ==
    \A s \in Sessions :
        ResetSettled(s) => SessionCleared(s) /\ view[s].message = "welcome"

\* C15 without the rendering: the fields alone
ResetClearsFields == \A s \in Sessions : ResetSettled(s) => SessionCleared(s)

\* C16: when the search raises inside a filter selection or a search submission,
\* the handler catches it, renders the error notice, keeps the filters and leaves
\* the results empty, not those of before the event.
C16_FailedSearchEmptiesResults ==
    [][\A s \in Sessions : \A i \in 1..MaxInFlight :
          SearchRuns(s, i, TRUE) =>
              /\ view'[s].message = "search_error"
              /\ view'[s].current_filters = view[s].current_filters
              /\ view'[s].current_results = <<>>]_vars

\* C16 without the results: the notice and the filters alone
FailedSearchKeepsFilters ==
    [][\A s \in Sessions : \A i \in 1..MaxInFlight :
          SearchRuns(s, i, TRUE) =>
              /\ view'[s].message = "search_error"
              /\ view'[s].current_filters = view[s].current_filters]_vars

\* C17: the handlers of one session run one after the other: at no time are two
\* handlers of the same session in flight.
C17_OneHandlerPerSession ==
    \A s \in Sessions : Len(tasks[s]) <= 1

\* what on_timeout does with each way delete() and edit() can end
TimeoutBestEffort(s, i) ==
    /\ DeleteReturns(s, i, "ok") =>
           view'[s].surface = "deleted" /\ Len(tasks'[s]) = Len(tasks[s]) - 1
    /\ DeleteReturns(s, i, "NotFound") =>
           /\ view'[s].message = view[s].message
           /\ Len(tasks'[s]) = Len(tasks[s]) - 1
    /\ DeleteReturns(s, i, "Forbidden") =>
           /\ tasks'[s][i] = Task("timeout", "expire")
           /\ view'[s] = view[s]
    /\ DeleteReturns(s, i, "HTTPException") =>
           view'[s] = view[s] /\ Len(tasks'[s]) = Len(tasks[s]) - 1
    /\ ExpireReturns(s, i, TRUE) =>
           view'[s].message = "expired" /\ Len(tasks'[s]) = Len(tasks[s]) - 1
    /\ ExpireReturns(s, i, FALSE) =>
           view'[s] = view[s] /\ Len(tasks'[s]) = Len(tasks[s]) - 1

C18_Expired ==
    \E s \in Sessions : view[s].surface = "expired" /\ tasks[s] = <<>>

\* the step is library_command finding the store unhealthy
LibraryRefused(s, sqlError) ==
    LibraryCommand(s, sqlError) /\ ~validate_database(db, sqlError)

\* C19: validate_database is true exactly when the store holds a record with
\* scrape_success true, and false when the store cannot be queried; when it is
\* false, library_command sends the one error notice and makes no session.
C19_UnhealthyStoreRefused ==
    /\ [](/\ validate_database(db, FALSE) <=> (\E r \in db : r.scrape_success)
          /\ ~validate_database(db, TRUE))
    /\ [][\A s \in Sessions : \A sqlError \in BOOLEAN :
            LibraryRefused(s, sqlError) =>
                /\ view'[s] = [view[s] EXCEPT !.notice = "database_error"]
                /\ ~view'[s].open
                /\ tasks'[s] = <<Task("notice", "send")>>]_vars

\* the notice was sent for a store that has a record, but no successful one
C19_Witness ==
    \E s \in Sessions :
        /\ last_event[s].type = "library"
        /\ view[s].notice = "database_error"
        /\ ~view[s].open
        /\ tasks[s] = <<>>
        /\ db # {}
        /\ \A r \in db : ~r.scrape_success

\* the member has neither the administrator permission nor a role named in
\* ADMIN_ROLE_NAMES
NoAdmin(m) == ~m.administrator /\ m.roles \cap ADMIN_ROLE_NAMES = {}

\* the step is the handler of request r of update, rebuild or statistics
AdminHandled(r) ==
    \/ AdminDispatch(r)
    \/ \E sqlError \in BOOLEAN, statsError \in BOOLEAN : StatsCommand(r, sqlError, statsError)

\* C20: a request for update, rebuild or statistics by a member without the
\* administrator permission and without an admin role is answered with the
\* permission-denied notice and has no other effect: the admin lock is neither
\* tested nor taken, no scraper run is started, the store is untouched.
C20_DenialHasNoEffect ==
    /\ [][\A r \in Requests :
            (AdminHandled(r) /\ NoAdmin(member[r])) =>
                /\ handler'[r] = "denied"
                /\ UNCHANGED <<admin_operation_lock, tested, saw_locked, report>>
                /\ UNCHANGED <<storeVars, syncVars>>]_vars
    /\ [](\A r \in Requests :
            (NoAdmin(member[r]) /\ handler[r] \notin {"none", "pending"}) =>
                handler[r] = "denied" /\ ~tested[r] /\ report[r] = None)

\* an update and a statistics request of a plain member were both denied
C20_Witness ==
    \E r \in Requests, q \in Requests :
        /\ handler[r] = "denied" /\ command[r] = "update" /\ NoAdmin(member[r])
        /\ handler[q] = "denied" /\ command[q] = "stats" /\ NoAdmin(member[q])

-----------------------------------------------------------------------------
(* Properties of the scraper's classification, extraction and runs *)

HasPrefix(s, pre) == Len(s) >= Len(pre) /\ SubSeq(s, 1, Len(pre)) = pre

\* the kinds of url of the library, told by where the url begins
ListingRoot(u) == u = LibPath \/ u = LibPath \o <<"/">>
CategoryIndex(u) == HasPrefix(u, LibPath \o <<"/","c","a","t","e","g","o","r","y","/">>)
TagIndex(u) == HasPrefix(u, LibPath \o <<"/","t","a","g","/">>)
AuthorQuery(u) == HasPrefix(u, LibPath \o <<"?","a","u","t","h","o","r","=">>)
ContentUrl(u) ==
    /\ HasPrefix(u, LibPath \o <<"/">>)
    /\ Len(u) > Len(LibPath) + 1
    /\ ~CategoryIndex(u) /\ ~TagIndex(u)
    /\ ~ \E i \in 1..Len(u) : u[i] = "?"

\* the urls that filter_article_urls has kept
Kept == {to_scrape[k].url : k \in 1..Len(to_scrape)}

\* C21: is_article_url is false for the listing root with or without the slash,
\* for every category index, tag index and author query, and true for every
\* content url under the library path that has no query string: once a full run
\* has filtered the manifest, it has kept exactly the content urls of these.
C21_ClassifierSeparates ==
    (mode = "full" /\ phase \in {"archive", "fetch", "store", "sleep", "summary"}) =>
        \A k \in 1..Len(all_urls) :
            LET u == all_urls[k].url
            IN  /\ (ListingRoot(u) \/ CategoryIndex(u) \/ TagIndex(u) \/ AuthorQuery(u))
                       => u \notin Kept
                /\ ContentUrl(u) => u \in Kept

\* C21 without the urls that hold "tag/" or "category/" inside a name
ClassifierSeparatesPlainNames ==
    (mode = "full" /\ phase \in {"archive", "fetch", "store", "sleep", "summary"}) =>
        \A k \in 1..Len(all_urls) :
            LET u == all_urls[k].url
            IN  /\ (ListingRoot(u) \/ CategoryIndex(u) \/ TagIndex(u) \/ AuthorQuery(u))
                       => u \notin Kept
                /\ (ContentUrl(u) /\ u # UrlSlug) => u \in Kept

-----------------------------------------------------------------------------
(* The catalog under writes of pages that carry many tags: more distinct tags   *)
(* than get_all_tags_with_counts returns                                        *)

\* twenty-five tags in five groups of five
TagGroups ==
    << << <<"y">>, <<"a">>, <<"b">>, <<"c">>, <<"d">> >>,
       << <<"e">>, <<"f">>, <<"g">>, <<"h">>, <<"i">> >>,
       << <<"j">>, <<"k">>, <<"l">>, <<"m">>, <<"n">> >>,
       << <<"o">>, <<"p">>, <<"q">>, <<"r">>, <<"s">> >>,
       << <<"t">>, <<"u">>, <<"v">>, <<"w">>, <<"x">> >> >>

\* a page with a title and the tags of group g
PageOfGroup(g) == Page(Some(<<"G">>), None, None, None, Some(TagGroups[g]), <<>>, FALSE)

PageTagsFew == Page(Some(<<"F","e","w">>), None, None, None,
                    Some(<< <<"x">>, <<"a">> >>), <<>>, FALSE)
PageTagsLost == Page(None, None, None, None, Some(<< <<"z">> >>), <<>>, FALSE)

TagPages == {PageOfGroup(1), PageOfGroup(5), PageTagsFew, PageTagsLost}

\* the catalog after pages of the groups in order were stored, one url each
TagLibrary(order) ==
    {RowOf(ExtractMetadata(PageOfGroup(order[i]),
                           UrlData(LibPath \o <<"/">> \o [j \in 1..i |-> "x"], None),
                           NoArchiveDates), i, i) : i \in 1..Len(order)}

TagStores == {{}, TagLibrary(<<1, 2, 3, 4>>), TagLibrary(<<5, 2, 3, 4>>)}

TagsInit ==
    /\ \E table \in TagStores :
          /\ db = table
          /\ nextId = Cardinality(table) + 1
          /\ clock = Cardinality(table)
    /\ lastData = [u \in ArticleUrls |-> None]
    /\ writes = 0
    /\ lastCall = NoCall
    /\ SyncIdle
    /\ site = Site1
    /\ BotIdle
    /\ NotCounting

TagsWrite ==
    /\ writes < MaxWrites
    /\ \E u \in ArticleUrls, p \in TagPages, dbError \in BOOLEAN, dt \in {0, 1} :
          StoreData(ExtractMetadata(p, UrlData(u, None), NoArchiveDates), dbError, dt)
    /\ UNCHANGED syncVars
    /\ UNCHANGED botVars

TagsNext == TagsWrite

SpecTags == TagsInit /\ [][TagsNext]_vars

\* the tags by count descending, ties in alphabetical order
ByCountThenName(tags, occ) ==
    LET count == [x \in tags |-> Count(occ, x)]
        before == [x \in tags |->
                      Cardinality({y \in tags :
                          \/ count[y] > count[x]
                          \/ count[y] = count[x] /\ StrLess(y, x)})]
    IN  [i \in 1..Cardinality(tags) |-> CHOOSE x \in tags : before[x] = i - 1]

\* the tag occurrences of the successful records, whatever the order of the rows
SuccessfulTagOccurrences(table) == TagOccurrences(ById(Successful(table)))

\* the top tags as the frequency order with alphabetical ties gives them
TopTagsByCountThenName(table) ==
    LET occ == SuccessfulTagOccurrences(table)
        ord == ByCountThenName(Range(occ), occ)
        top == SubSeq(ord, 1, IF Len(ord) < TopTagCount THEN Len(ord) ELSE TopTagCount)
    IN  SortedStrs(Range(top))

\* C22: get_all_tags_with_counts returns the tags of the successful records
\* ordered by frequency descending and cut at the maximum count, sorted
\* alphabetically, and among tags of equal frequency at the cut the
\* alphabetically earlier ones are the ones included, whatever the order in
\* which the records are stored.
C22_TopTagsTiesAlphabetical ==
    GetAllTagsWithCounts(db) = TopTagsByCountThenName(db)

\* C22 for catalogs with no more distinct tags than the maximum count
TopTagsWithoutCut ==
    Cardinality(Range(SuccessfulTagOccurrences(db))) <= TopTagCount
        => GetAllTagsWithCounts(db) = TopTagsByCountThenName(db)

\* the records of the five groups, each tag once, stored with group 1 first or
\* with group 5 first
GroupOneFirst ==
    /\ Cardinality(Range(SuccessfulTagOccurrences(db))) = 25
    /\ Len(SuccessfulTagOccurrences(db)) = 25
    /\ \E r \in db : r.id = 1 /\ r.tags = JsonDumps(TagGroups[1])
GroupFiveFirst ==
    /\ Cardinality(Range(SuccessfulTagOccurrences(db))) = 25
    /\ Len(SuccessfulTagOccurrences(db)) = 25
    /\ \E r \in db : r.id = 1 /\ r.tags = JsonDumps(TagGroups[5])

\* what get_all_tags_with_counts leaves out of the twenty-five tags
TopTagsStoredOrder ==
    /\ GroupOneFirst => <<"x">> \notin Range(GetAllTagsWithCounts(db))
    /\ GroupFiveFirst => <<"d">> \notin Range(GetAllTagsWithCounts(db))

\* the page has a title element whose text is not blank
HasTitle(p) == ~IsNone(p.title) /\ Strip(Val(p.title)) # <<>>

\* no record marked failed is among the results of a search without filters
FailedNotListed(table) ==
    \A res \in SearchContent(table, Query(None, None, None, None, SEARCH_RESULTS_LIMIT)) :
        \A i \in 1..Len(res) : ~ \E r \in table : ~r.scrape_success /\ r.url = res[i].url

\* what extract_metadata made of page p in a write, against the title of p
TitleGate(p, data) ==
    /\ (~p.raises /\ IsNone(p.title)) =>
          ~data.scrape_success /\ data.title = NoTitleFound
    /\ HasTitle(p) => data.scrape_success

\* C23: the title is the sole validity gate of extraction: a page without a title
\* element gives scrape_success false and the title "No title found"; a page with
\* a non-empty title gives scrape_success true, even when categories, author,
\* date, tags and description are all missing; and a failed record that has been
\* stored is not returned by a search without filters.
C23_TitleIsTheGate ==
    [][\A u \in StoreUrls, p \in Pages, lm \in StoreLastmods :
          LET data == ExtractMetadata(p, UrlData(u, lm), NoArchiveDates)
          IN  (\E dbError \in BOOLEAN, dt \in {0, 1} : StoreData(data, dbError, dt))
                  => TitleGate(p, data) /\ FailedNotListed(db')]_vars

\* C23 for the pages whose title is not the text "No title found" itself
TitleIsTheGateOtherTitles ==
    [][\A u \in StoreUrls, p \in Pages \ {PageSentinelTitle}, lm \in StoreLastmods :
          LET data == ExtractMetadata(p, UrlData(u, lm), NoArchiveDates)
          IN  (\E dbError \in BOOLEAN, dt \in {0, 1} : StoreData(data, dbError, dt))
                  => TitleGate(p, data) /\ FailedNotListed(db')]_vars

\* a page with a title and nothing else has been stored as a successful record,
\* and a page without a title as a failed one that the search does not list
BareAndFailedStored ==
    /\ \E r \in db : /\ r.scrape_success /\ r.title = <<"T">>
                      /\ r.categories = Uncategorized /\ r.author = Unknown
                      /\ r.published_date = Unknown /\ r.tags = JsonDumps(<<>>)
    /\ \E r \in db : ~r.scrape_success /\ r.title = NoTitleFound
    /\ FailedNotListed(db)

\* the date that the claim gives a record of url read from page, under the map
DateDue(page, url, dates) ==
    IF url \in DOMAIN dates THEN dates[url]
    ELSE IF IsNone(page.date) THEN Unknown ELSE Val(page.date)

\* the archive pass is over: the loop over the articles has begun
InLoop == phase \in {"fetch", "store", "sleep"}

\* C24: the date of the archive listing wins.  In a full or incremental run the
\* archive pass is complete before the first article is fetched (no article has
\* been fetched while the pass runs, and the map does not change once the loop
\* has begun); the record read from a page carries the date of the map when the
\* url has an entry there, else the page's own date, or "Unknown" when the page
\* has none; and that date is the published_date of the record stored.
C24_ArchiveDateWins ==
    /\ [](phase = "archive" => attempted = {} /\ outcomes = <<>>)
    /\ [][InLoop => archive_dates' = archive_dates]_vars
    /\ [][\A page \in SyncPages :
             (FetchAttempt(TRUE, page) /\ ~page.raises) =>
                 /\ InLoop
                 /\ Val(scraped').published_date =
                        DateDue(page, to_scrape[item].url, archive_dates)]_vars
    /\ [][(StoreItem(FALSE) /\ Val(scraped).complete) =>
             \E r \in db' : /\ r.url = to_scrape[item].url
                             /\ r.id = nextId
                             /\ r.published_date = Val(scraped).published_date]_vars

\* a run has stored a page dated 2025 under the date 2024 of the archive listing,
\* a page dated 2025 of a url the listing does not hold under 2025, and a page
\* without a date under "Unknown"
C24_Witness ==
    /\ phase = "done"
    /\ UrlA \in DOMAIN archive_dates /\ archive_dates[UrlA] = Date24
    /\ \E r \in db : /\ r.url = UrlA /\ r.title = <<"G","o">> /\ r.scraped_at > 2
                      /\ r.published_date = Date24
    /\ \E r \in db : /\ r.url = UrlB /\ r.title = <<"G","o">> /\ r.scraped_at > 2
                      /\ r.published_date = Date25
    /\ \E r \in db : /\ r.url = UrlC /\ r.title = <<"T">> /\ r.scraped_at > 2
                      /\ r.published_date = Unknown

\* a full or incremental run has been started / has ended
RunStarted == mode \in {"full", "update"} /\ phase = "sitemap" /\ src = 1
RunEnded == mode \in {"full", "update"} /\ phase = "done"

\* C25: every full or incremental run that is started appends exactly one summary
\* row to the run log before it ends, whatever its outcome: also a run whose
\* manifest is empty, a run that finds no article url, and a run that finds
\* nothing to update.
C25_EveryRunLogged ==
    /\ [](Len(run_log) <= 1)
    /\ [](RunEnded => Len(run_log) = 1)
    /\ RunStarted ~> (RunEnded /\ Len(run_log) = 1)

\* the runs that end without a row are the ones that select no article, and
\* every run that selects one ends with one row
RunsLoggedWhenSelected ==
    /\ [](Len(run_log) <= 1)
    /\ [](RunEnded => (Len(run_log) = 1 <=> to_scrape # <<>>))
    /\ RunStarted ~> RunEnded

\* an incremental run has ended with nothing to update and no row in the log
UpToDateRunEnded ==
    /\ mode = "update" /\ phase = "done"
    /\ all_urls # <<>> /\ to_scrape = <<>>
    /\ run_log = <<>>

\* the entries that the sitemap_url in turn holds
SourceEntries == IF src = 1 THEN site.sitemap ELSE site.index_sub

\* discovery is at work
Discovering == phase \in {"sitemap", "submap"}

\* the manifests that discovery can return: the entries of any of the sources,
\* in the order of the sources
PartialManifests ==
    {(IF 1 \in S THEN site.sitemap ELSE <<>>) \o (IF 2 \in S THEN site.index_sub ELSE <<>>) :
        S \in SUBSET {1, 2}}

\* C26: a partial manifest does not abort the run.  A sitemap or sub-sitemap whose
\* request or parse fails adds nothing and takes nothing away from the entries
\* read so far, and discovery goes on with the next source; a source that is read
\* adds all of its entries; the manifest returned holds the entries of the
\* sources that were read and stays as returned; and every run, also one whose
\* sources all failed and whose manifest is empty, comes to its end.
C26_PartialManifestKept ==
    /\ [][(FetchSitemap(FALSE) \/ parse_individual_sitemap(FALSE)) =>
             /\ all_urls' = all_urls
             /\ phase' = IF src < 2 THEN "sitemap" ELSE "discovered"
             /\ src' = IF src < 2 THEN src + 1 ELSE src]_vars
    /\ [][parse_individual_sitemap(TRUE) => all_urls' = all_urls \o SourceEntries]_vars
    /\ [][FetchSitemap(TRUE) => all_urls' = all_urls /\ phase' = "submap"]_vars
    /\ [][~Discovering => all_urls' = all_urls]_vars
    /\ [](~Discovering /\ phase # "idle" => all_urls \in PartialManifests)
    /\ (phase = "sitemap") ~> (phase = "discovered")
    /\ (phase = "discovered") ~> (phase = "done")

\* the first sitemap failed, the second was read, and the run went on with the
\* entries of the second to its summary
C26_Witness ==
    /\ phase = "done"
    /\ mode = "full"
    /\ site.sitemap # <<>>
    /\ all_urls = site.index_sub
    /\ to_scrape # <<>>
    /\ stats.urls_found = Len(site.index_sub)
    /\ Len(run_log) = 1

\* every source failed: the manifest is empty and the run has ended
AllSourcesFailed ==
    /\ phase = "done"
    /\ mode \in {"full", "update"}
    /\ site.sitemap # <<>>
    /\ all_urls = <<>>
    /\ stats.urls_found = 0

\* scrape_page has just returned None for the url u: every attempt failed
GaveUpOn(u) ==
    /\ phase = "sleep"
    /\ scraped = None
    /\ Len(outcomes) = max_retries /\ AllFailed(outcomes)
    /\ to_scrape[item].url = u

\* the store holds a record of u that is marked failed
FailedRecordOf(u) == \E r \in db : r.url = u /\ ~r.scrape_success

\* C28: a url whose fetch fails on all retry attempts is treated as an extraction
\* failure: the failure is counted once in the error statistics, and at the end
\* of the run the store holds a record of that url with scrape_success false.
C28_FetchFailureStoredAsFailed ==
    /\ [](\A u \in ArticleUrls : GaveUpOn(u) => stats.errors = errors_before + 1)
    /\ \A u \in ArticleUrls : GaveUpOn(u) ~> (phase = "done" /\ FailedRecordOf(u))

\* what the run does with such a url: it counts the failure, writes nothing, and
\* goes on to the end
FetchFailureCountedOnly ==
    /\ [](\A u \in ArticleUrls : GaveUpOn(u) => stats.errors = errors_before + 1)
    /\ [][(\E page \in SyncPages : FetchAttempt(FALSE, page)) => db' = db]_vars
    /\ [][(phase = "sleep" /\ scraped = None) => db' = db]_vars
    /\ \A u \in ArticleUrls : GaveUpOn(u) ~> (phase = "done")

\* a run has ended after giving up on an article that the store never held
GaveUpAndEnded ==
    /\ phase = "done"
    /\ Len(to_scrape) = 1
    /\ Len(outcomes) = max_retries /\ AllFailed(outcomes)
    /\ stats.errors = 1
    /\ ~ \E r \in db : r.url = to_scrape[1].url

\* the step sends a request for an archive page
ArchiveRequest ==
    /\ ArchiveGoesOn(archive_url, page_count)
    /\ \E ok \in BOOLEAN : ArchivePage(ok)

\* the step sends a request for an article
ArticleRequest == \E ok \in BOOLEAN, page \in SyncPages : FetchAttempt(ok, page)

\* the step sends a request for a sitemap or a sub-sitemap
SitemapRequest ==
    \/ \E ok \in BOOLEAN : FetchSitemap(ok)
    \/ \E ok \in BOOLEAN : parse_individual_sitemap(ok)

\* C29: between any two successive outbound requests of a run (for sitemaps,
\* sub-sitemaps, archive pages, articles and their retries) a delay step occurs:
\* when a request is sent, the latest of the requests and sleeps before it, if
\* there is one, is a sleep.
C29_DelayBetweenFetches ==
    [][(SitemapRequest \/ ArchiveRequest \/ ArticleRequest) => last_io # "request"]_vars

\* the requests that do follow a sleep: every archive page after the first, every
\* retry of an article, and every article after the first
DelayInsideLoops ==
    /\ [][(ArchiveRequest /\ page_count > 0) => last_io = "sleep"]_vars
    /\ [][(ArticleRequest /\ (item > 1 \/ attempt > 0)) => last_io = "sleep"]_vars

\* the requests that follow a request with no sleep in between
NoDelayOutsideLoops ==
    /\ [][(\E ok \in BOOLEAN : parse_individual_sitemap(ok)) => last_io = "request"]_vars
    /\ [][((\E ok \in BOOLEAN : FetchSitemap(ok)) /\ src > 1) => last_io = "request"]_vars
    /\ [][(ArchiveRequest /\ page_count = 0) => last_io = "request"]_vars
    /\ [][(ArticleRequest /\ item = 1 /\ attempt = 0) => last_io = "request"]_vars

-----------------------------------------------------------------------------
(* Properties of the handlers: acknowledgement, isolation *)

\* bot.py: a handler of s runs its search or its statistics query in this step
BotQueries(s, i) ==
    \/ \E raised \in BOOLEAN : SearchRuns(s, i, raised)
    \/ \E raised \in BOOLEAN : ResetRenders(s, i, raised)

\* bot.py: a callback of s runs up to its first await in this step
BotCallbackStarts(s) ==
    \/ CategoryCallback(s) \/ AuthorCallback(s) \/ TagCallback(s) \/ SearchSubmit(s)
    \/ ResetButton(s) \/ PreviousButton(s) \/ NextButton(s)

\* bot.py: the first await of every callback is interaction.response.defer() (or,
\* for a page button at the first or last page, the send_message of the notice,
\* which ends the handler); no result list is computed and nothing is rendered
\* before it, and the queries run in the step that resumes from the defer
BotAcknowledgesFirst ==
    /\ [][\A s \in Sessions : BotCallbackStarts(s) =>
             /\ Len(tasks'[s]) = Len(tasks[s]) + 1
             /\ tasks'[s][Len(tasks'[s])] \in
                    {Task("update", "defer"), Task("reset", "defer"), Task("page", "defer"),
                     Task("notice", "send")}
             /\ view'[s].current_results \in {view[s].current_results, <<>>}
             /\ view'[s].message = view[s].message]_vars
    /\ [][\A s \in Sessions : \A i \in 1..MaxInFlight : BotQueries(s, i) =>
             tasks[s][i].at = "defer" /\ tasks'[s][i].at = "edit"]_vars

\* library_view.py: the callback of task t has answered its interaction, which it
\* does with interaction.response.edit_message in update_display
PersistentResponded(t) == t.at = "edit"

\* library_view.py: the search of a callback returns only after the callback has
\* answered its interaction
PersistentAcknowledgesFirst ==
    [][\A i \in 1..MaxInFlight : \A results \in FeedResults, raised \in BOOLEAN :
          load_returns(i, results, raised) => PersistentResponded(ptasks[i])]_vars

\* C30: in every handler that runs a search or a store query and then renders
\* again (dropdown select, search submit, reset, page change), the interaction is
\* acknowledged before the search or query is run, in bot.py and in
\* library_view.py alike.
C30_AcknowledgedBeforeSearch ==
    BotAcknowledgesFirst /\ PersistentAcknowledgesFirst

\* library_view.py answers only after the search: a callback that awaits its
\* search has not answered, and the answer is sent in the step the search returns
PersistentAnswersAfterSearch ==
    /\ [](\A i \in 1..Len(ptasks) : ptasks[i].at \in {"metadata", "load", "edit"})
    /\ [][\A i \in 1..MaxInFlight : \A results \in FeedResults, raised \in BOOLEAN :
             load_returns(i, results, raised) =>
                 ptasks[i].at = "load" /\ ptasks'[i].at = "edit"]_vars

-----------------------------------------------------------------------------
(* Several browsing sessions open at once *)

NumOpen == 2

\* the sessions that are open together
Open == 1..NumOpen

\* the bot has started and nothing was sent to it; library_command will build a
\* LibraryView of its own for every /library, with the instance attributes of
\* LibraryView.__init__
IsolationInit ==
    /\ CatalogIs(Library(RESULTS_PER_PAGE + 1))
    /\ site = SiteBot
    /\ SyncIdle
    /\ admin_operation_lock = FALSE
    /\ handler = [r \in Requests |-> "none"]
    /\ command = [r \in Requests |-> "none"]
    /\ member = [r \in Requests |-> NoMember]
    /\ report = [r \in Requests |-> None]
    /\ saw_locked = [r \in Requests |-> FALSE]
    /\ tested = [r \in Requests |-> FALSE]
    /\ pending = [s \in Open |-> None]
    /\ view = [s \in Open |-> NoView]
    /\ tasks = [s \in Open |-> <<>>]
    /\ last_event = [s \in Open |-> Event("none", <<>>)]
    /\ timeouts = [s \in Open |-> 0]
    /\ timeout_raised = [s \in Open |-> FALSE]
    /\ run = [s \in Open |-> NoRun]
    /\ pview = NoPView
    /\ ptasks = <<>>
    /\ plast = Event("none", <<>>)

\* a handler of session s begins or goes on after an await; the user of s browses
\* by category and page, waits for the answer to what they sent, and the view
\* times out once it is idle
IsolationStep(s) ==
    \/ tasks[s] = <<>> /\ \E sqlError \in BOOLEAN : LibraryCommand(s, sqlError)
    \/ tasks[s] = <<>> /\ CategoryCallback(s)
    \/ tasks[s] = <<>> /\ ResetButton(s)
    \/ tasks[s] = <<>> /\ PreviousButton(s)
    \/ tasks[s] = <<>> /\ NextButton(s)
    \/ tasks[s] = <<>> /\ timeouts[s] = 0 /\ OnTimeout(s)
    \/ \E i \in 1..MaxInFlight :
          \/ LibrarySent(s, i)
          \/ NoticeSent(s, i)
          \/ \E raised \in BOOLEAN : SearchRuns(s, i, raised)
          \/ \E raised \in BOOLEAN : ResetRenders(s, i, raised)
          \/ PageRenders(s, i)
          \/ EditDone(s, i)
          \/ \E outcome \in {"ok", "NotFound", "Forbidden", "HTTPException"} :
                DeleteReturns(s, i, outcome)
          \/ \E ok \in BOOLEAN : ExpireReturns(s, i, ok)

\* the handlers of the open sessions interleave at their awaits
IsolationNext == \E s \in Open : IsolationStep(s)

SpecIsolation == IsolationInit /\ [][IsolationNext]_vars

\* everything the bot keeps of session s: its view, its handlers at their awaits,
\* the interaction that waits, its timeout
OfSession(s) ==
    <<view[s], tasks[s], pending[s], last_event[s], timeouts[s], timeout_raised[s], run[s]>>

\* C27: a step in which an event or a failure of one session is handled (the
\* store cannot be read, the search raises, the deletion of the message is
\* refused) leaves the filters, the results and the page of every other open
\* session as they were, in every interleaving of the handlers of the sessions
C27_SessionsIsolated ==
    [][\A s \in Open : OfSession(s)' # OfSession(s) =>
          \A t \in Open \ {s} :
              /\ view'[t].current_filters = view[t].current_filters
              /\ view'[t].current_results = view[t].current_results
              /\ view'[t].current_page = view[t].current_page]_vars

\* one session shows the error of a search that raised while the other, opened
\* with it, is on the second page of its own results
C27_Witness ==
    /\ view[1].open /\ view[2].open
    /\ view[1].message = "search_error"
    /\ view[1].current_filters.category # None
    /\ view[2].message = "results"
    /\ view[2].current_filters = NoFilters
    /\ view[2].current_results # <<>>
    /\ view[2].current_page = 1

\* every step is a step of one session: it changes something of that session and
\* nothing at all of another
SessionsShareNothing ==
    [][\E s \in Open : /\ OfSession(s)' # OfSession(s)
                       /\ \A t \in Open \ {s} : OfSession(t)' = OfSession(t)]_vars

-----------------------------------------------------------------------------
(* Properties of the archive traversal, the selection and the runs' effect on  *)
(* the catalog                                                                 *)

\* the step reads an archive page that has no link to older posts
LastArchivePageRead ==
    /\ ArchiveRequest
    /\ ArchivePage(TRUE)
    /\ site.archive[Val(archive_url)].older = None

\* the request for an archive page, or its parse, raises
ArchivePageFails == ArchiveRequest /\ ArchivePage(FALSE)

\* C31: the traversal of the archive listing terminates and fetches at most 50
\* pages, also when every page links on (a cycle of links included): a page is
\* requested only while fewer than 50 were counted, and every request either
\* counts one more or is the last one.  It stops at the first page without a
\* link to older posts; a failure on a page ends the traversal with the dates
\* read so far kept and the run goes on to its loop and to its summary.
C31_ArchiveTraversalBounded ==
    /\ [](page_count <= ArchivePageLimit)
    /\ [][ArchiveRequest =>
            \/ page_count' = page_count + 1 /\ phase' = "archive"
            \/ archive_url' = None /\ phase' = "archive"
            \/ phase' = "fetch"]_vars
    /\ [][LastArchivePageRead => archive_url' = None]_vars
    /\ [][(phase = "archive" /\ archive_url = None) =>
             (phase' = "fetch" /\ last_io' = last_io)]_vars
    /\ [][ArchivePageFails => (phase' = "fetch" /\ archive_dates' = archive_dates)]_vars
    /\ (phase = "archive") ~> (phase = "done" /\ Len(run_log) = 1)

\* the page limit has ended the traversal of a listing whose links form a cycle,
\* and the run has gone on to its end with the dates of both pages
C31_Witness ==
    /\ site = Site5
    /\ page_count = ArchivePageLimit
    /\ archive_url # None
    /\ DOMAIN archive_dates = {UrlA, UrlB}
    /\ phase = "done"
    /\ Len(run_log) = 1

\* a failure on the second archive page has left the dates of the first in the map
ArchiveFailureKeptDates ==
    /\ site = Site4
    /\ page_count = 1
    /\ archive_url = Some(2)
    /\ DOMAIN archive_dates = {UrlB}
    /\ phase = "done"

\* no url is listed twice in seq
EachUrlOnce(seq) == \A i, j \in 1..Len(seq) : i # j => seq[i].url # seq[j].url

\* C32: the items selected for fetch in a run hold each url at most once, also
\* when the sources of the manifest overlap or list a url more than once, so no
\* url is fetched and stored more than once in the run.
C32_SelectedOnce == EachUrlOnce(to_scrape)

\* what the code selects: every listing of an article url in the manifest, in the
\* order of the manifest, none dropped for being listed before
SelectionKeepsEveryListing ==
    (mode = "full" /\ phase \in {"archive", "fetch", "store", "sleep", "summary"})
        => to_scrape = filter_article_urls(all_urls)

\* a full run has ended in which an article listed by both sources was fetched and
\* stored twice
StoredTwiceInOneRun ==
    /\ mode = "full" /\ phase = "done"
    /\ ~EachUrlOnce(to_scrape)
    /\ successful_scrapes = Len(to_scrape)
    /\ Len(to_scrape) > Cardinality({to_scrape[k].url : k \in 1..Len(to_scrape)})

-----------------------------------------------------------------------------
(* Properties of the browsing session: its states and its pages *)

\* session s shows a page of results, and none of its handlers is in flight
ShowsResults(s) == view[s].open /\ tasks[s] = <<>> /\ view[s].message = "results"

\* C33: a session shows results only while at least one of category, author, tag
\* and search term is set, and the welcome content while none is: in every state
\* where a session shows a page of results (no handler of it in flight, so what
\* is shown is what the last handler rendered) some filter field is set.
C33_ResultsOnlyWhenFiltered ==
    \A s \in Sessions : ShowsResults(s) => view[s].current_filters # NoFilters

\* the "clear" option of the category dropdown, chosen in a view that had no
\* filter, has rendered the results of the search without filters
ClearShowsWholeCatalog ==
    /\ ShowsResults(1)
    /\ view[1].current_filters = NoFilters
    /\ last_event[1] = Event("category", ClearValue)
    /\ view[1].current_results # <<>>

\* what update_results renders when no handler is in flight: the results page
\* whenever the last search returned something, filters or not
ResultsWheneverFound ==
    \A s \in Sessions :
        ShowsResults(s) => view[s].current_results # <<>>

\* C34: the page of a session stays in range in every state, whatever the order
\* in which its handlers (select, search, next, previous, reset, searches that
\* fail) run between their awaits: current_page is 0 or current_page *
\* RESULTS_PER_PAGE is less than the number of results, so the slice that
\* show_results renders of a result list that is not empty is never empty.
C34_PageInRange ==
    \A s \in Sessions :
        /\ view[s].current_page >= 0
        /\ \/ view[s].current_page = 0
           \/ view[s].current_page * RESULTS_PER_PAGE < Len(view[s].current_results)
        /\ view[s].current_results # <<>> => PageResults(view[s]) # <<>>

\* a session is on its second page while a search of it waits at its defer and a
\* page press of it waits as well
C34_Witness ==
    /\ view[1].current_page = 1
    /\ \E i, j \in 1..Len(tasks[1]) :
          /\ tasks[1][i] = Task("update", "defer")
          /\ tasks[1][j].kind = "page"

\* the catalog table shows the article of url u
VisibleIn(table, u) == \E r \in table : r.url = u /\ r.scrape_success

\* the run began on the catalog Store1: the record of b in Store1 was read from a
\* page (PageHi) that the site serves to no run, so a catalog holds that record
\* only if it has held it since before the run
BeganOnStore1 == \E r \in db : r.url = UrlB /\ r \in Store1

\* C37: a sync run never hides a visible article: every url that had a record
\* with scrape_success true when the full or incremental run began has one when
\* the run has ended, whatever the fetches and extractions of the run brought
\* (stated for the runs that began on Store1 and left its record of b alone).
C37_RunNeverHides ==
    (RunEnded /\ BeganOnStore1) =>
        \A u \in ArticleUrls : VisibleIn(Store1, u) => VisibleIn(db, u)

\* an incremental run has ended that fetched a changed article, read a page
\* without a title from it and replaced the visible record by a failed one
HiddenByRun ==
    /\ mode = "update" /\ phase = "done"
    /\ VisibleIn(Store1, UrlC)
    /\ BeganOnStore1
    /\ \E r \in db : r.url = UrlC /\ ~r.scrape_success
    /\ successful_scrapes = 0

\* a step hides an article only by storing what extract_metadata made of a page
\* without a title for that article
HiddenOnlyByFailedExtraction ==
    [][\A u \in ArticleUrls :
          (VisibleIn(db, u) /\ ~VisibleIn(db', u)) =>
              /\ phase = "store"
              /\ to_scrape[item].url = u
              /\ scraped # None /\ ~Val(scraped).scrape_success]_vars

\* the article urls of the manifest that the run has discovered
ManifestArticleUrls == {e.url : e \in Range(filter_article_urls(all_urls))}

\* a full run has gone through its loop and written its summary
FullRunCompleted == mode = "full" /\ phase = "done" /\ Len(run_log) = 1

\* C38: a full rebuild rebuilds the entire catalog: after a full run has
\* completed, every record of the catalog has a url that is an article entry of
\* the manifest which that run discovered; records of articles that are no
\* longer in the manifest are gone from the catalog and from the search results.
C38_RebuildDropsAbsent ==
    FullRunCompleted => \A r \in db : r.url \in ManifestArticleUrls

\* a full run has completed over a manifest without the article c, and the record
\* of c is still in the catalog and among the results of a search
AbsentArticleKept ==
    /\ FullRunCompleted
    /\ UrlC \notin ManifestArticleUrls
    /\ \E res \in SearchContent(db, Query(None, None, None, None, SEARCH_RESULTS_LIMIT)) :
          \E k \in 1..Len(res) : res[k].url = UrlC

\* what the code does: no step of a run takes the record of a url out of the
\* catalog
RunsOnlyAddOrReplace ==
    [][{r.url : r \in db} \subseteq {r.url : r \in db'}]_vars

\* the result list of view v is one that search_library returns for the filters
\* of v
ResultsOfFilters(v) == v.current_results \in SearchContent(db, FiltersQuery(v.current_filters))

\* a handler of s comes back from its defer and renders a page of results in this
\* step
RendersResults(s) ==
    /\ Len(tasks'[s]) = Len(tasks[s])
    /\ \E i \in 1..Len(tasks[s]) : tasks[s][i].at = "defer" /\ tasks'[s][i].at = "edit"
    /\ view'[s].message = "results"

\* the handler that renders is update_results
SearchRendersResults(s) ==
    /\ RendersResults(s)
    /\ \E i \in 1..Len(tasks[s]) : tasks[s][i] = Task("update", "defer") /\ tasks'[s][i].at = "edit"

\* C36: every page of results that is rendered is self-consistent: the list it
\* shows was computed by a search with exactly the filter values that the same
\* render shows as active, whatever the order in which the handlers of the
\* session run between their awaits (over a catalog that does not change).
C36_RenderSelfConsistent ==
    [][\A s \in Sessions : RendersResults(s) => ResultsOfFilters(view'[s])]_vars

\* the renders of update_results itself are self-consistent: the search and the
\* render are one step of the event loop
SearchRenderSelfConsistent ==
    [][\A s \in Sessions : SearchRendersResults(s) => ResultsOfFilters(view'[s])]_vars

\* no handler is in flight and the page shown lists, under the filters it names,
\* results that no search with these filters returns
StaleResultsUnderNewFilters ==
    /\ ShowsResults(1)
    /\ view[1].current_filters # NoFilters
    /\ ~ResultsOfFilters(view[1])

-----------------------------------------------------------------------------
(* Properties of the admin operations: the lock and the report *)

\* C35: the admin lock is held only while a handler of an update or a rebuild is
\* executing: it is free whenever no such handler is in flight, by whatever way
\* the last one ended (the scraper returned 0, returned something else, ran out
\* of its time budget, an exception while the scraper ran or while the reply was
\* sent or edited), and an admin's operation that is dispatched while no handler
\* is in flight is accepted.
C35_LockOnlyWhileHandling ==
    /\ [](admin_operation_lock <=> InsideLock # {})
    /\ [][\A r \in Requests :
            (/\ handler[r] = "pending" /\ handler'[r] # "pending"
             /\ command[r] \in {"update", "rebuild"}
             /\ has_admin_role(member[r])
             /\ InsideLock = {})
            => handler'[r] = "starting"]_vars

\* an operation was accepted after the handler of an earlier one had ended with
\* the scraper out of its time budget
C35_Witness ==
    \E r, q \in Requests :
        /\ handler[r] = "finished"
        /\ Val(report[r]).kind = "timeout"
        /\ tested[q] /\ ~saw_locked[q]
        /\ handler[q] = "running"
        /\ admin_operation_lock

\* the handler of request r reports success in this step: subprocess.run has
\* returned 0 and the embed "completed successfully" with the stats is built
ReportsSuccess(r) ==
    /\ handler[r] = "running" /\ handler'[r] = "reporting"
    /\ report'[r] # None /\ Val(report'[r]).kind = "complete"

\* C39: an admin update or rebuild reports success only if the run it started
\* discovered at least one manifest entry and went through its loop for every
\* item it selected; when every manifest source was unreachable, or the run
\* returned before fetching because it found no url, it does not report success.
C39_SuccessOnlyAfterWork ==
    [][\A r \in Requests : ReportsSuccess(r) =>
          /\ all_urls # <<>>
          /\ filter_article_urls(all_urls) # <<>>
          /\ to_scrape # <<>> => Len(run_log) = 1]_vars

\* what the code reports success on: the end of the scraper process, whatever the
\* run found and did
SuccessOnProcessEnd ==
    [][\A r \in Requests : ReportsSuccess(r) => phase = "done"]_vars

\* the scraper of an admin operation has ended without a manifest entry, both
\* sources unreachable: subprocess.run returns 0 to the handler that waits
NothingFoundThenSuccess ==
    \E r \in Requests :
        /\ handler[r] = "running"
        /\ phase = "done"
        /\ all_urls = <<>>
        /\ run_log = <<>>

-----------------------------------------------------------------------------
(* Properties of the statistics *)

\* the distinct tags over the records with scrape_success true
DistinctTags(table) == Range(SuccessfulTagOccurrences(table))

\* C40: total_tags of get_content_stats is the number of distinct tags over all
\* records with scrape_success true, for every content of the store, also when
\* there are more than 24 distinct tags.
C40_TotalTagsCountsAll ==
    GetContentStats(db).total_tags = Cardinality(DistinctTags(db))

\* what the code counts: the distinct tags, but never more than the 24 that
\* get_all_tags_with_counts returns
TotalTagsCappedAtTop ==
    GetContentStats(db).total_tags =
        IF Cardinality(DistinctTags(db)) < TopTagCount
        THEN Cardinality(DistinctTags(db)) ELSE TopTagCount

\* the store holds 25 distinct tags and total_tags is 24
TwentyFiveTagsCountedAsTwentyFour ==
    /\ Cardinality(DistinctTags(db)) = 25
    /\ GetContentStats(db).total_tags = 24

====
